---- MODULE Spec2Model ----
(***************************************************************************)
(* Model of the irecovery client (src/irecovery.c): the two-zone client    *)
(* record, the USB event handler, and the polling entry point with the     *)
(* identification / finalization sequence, and the upload engine           *)
(* irecovery_send_buffer with its recovery and DFU/WTF framing.            *)
(*                                                                         *)
(* usb_HandleEvents() dispatches the adapter's events synchronously from   *)
(* inside the API calls.  Every place where the code calls it is a value   *)
(* of pc; at such a place the action UsbEvent runs usb_event_handler for   *)
(* one event (at most MaxEvents per invocation) and the operation's next   *)
(* action continues with the code that follows the call.                   *)
(***************************************************************************)
EXTENDS Integers, Sequences, FiniteSets, TLC

\* ---------------------------------------------------------------- bounds
\* events dispatched by one usb_HandleEvents() invocation
MaxEvents == 2
\* device handles the USB adapter can hand out (1..NumDevices; 0 is NULL)
NumDevices == 3
\* events dispatched by the usb_HandleEvents() invocations of one upload
MaxUploadEvents == 1
\* uploads the application makes
MaxUploads == 1
\* uploads have from 0 to MaxPackets packets
MaxPackets == 2
\* calls of the command and device-request operations the application makes
MaxCalls == 2
\* tokens in an identity string drawn in every order
MaxTags == 3
\* the transfers of an upload one of which a scripted device lets fail
MaxFailAt == 4

\* ------------------------------------------------------- program constants
APPLE_VENDOR_ID == 1452
IRECOVERY_K_RECOVERY_MODE_1 == 4736
IRECOVERY_K_RECOVERY_MODE_2 == 4737
IRECOVERY_K_RECOVERY_MODE_3 == 4738
IRECOVERY_K_RECOVERY_MODE_4 == 4739
IRECOVERY_K_WTF_MODE == 4642
IRECOVERY_K_PWNDFU_MODE == 65535
IRECOVERY_K_DFU_MODE == 4647

IRECOVERY_E_SUCCESS == 0
IRECOVERY_E_BAD_PTR == -1
IRECOVERY_E_NO_MEMORY == -3
IRECOVERY_E_NO_DEVICE == -5
IRECOVERY_E_DESCRIPTOR_FETCH_FAILED == -7
IRECOVERY_E_ECID_MISMATCH == -8
IRECOVERY_E_DESCRIPTOR_SET_FAILED == -9
IRECOVERY_E_FINALIZATION_BLOCKED == -11
IRECOVERY_E_USB_UPLOAD_FAILED == -12
IRECOVERY_E_INVALID_USB_STATUS == -13
IRECOVERY_E_COMMAND_TOO_LONG == -14
IRECOVERY_E_NO_COMMAND == -15
IRECOVERY_E_SERVICE_NOT_AVAILABLE == -16
IRECOVERY_E_USB_RESET_FAILED == -17
IRECOVERY_E_UNKNOWN_EVENT_TYPE == -18

\* irecovery_event_type
IRECOVERY_PROGRESS == 1

IRECOVERY_CLIENT_DEVICE_POLICY_ACCEPT_ALL == 0
IRECOVERY_CLIENT_DEVICE_POLICY_ACCEPT_ONLY_WHEN_NO_CURRENT_CONNECTION == 1
IRECOVERY_CLIENT_DEVICE_POLICY_ONE_CONNECTION_LIMIT == 2

IRECOVERY_SEND_OPT_NONE == 0
IRECOVERY_SEND_OPT_DFU_NOTIFY_FINISH == 1
IRECOVERY_SEND_OPT_DFU_FORCE_ZLP == 2
IRECOVERY_SEND_OPT_DFU_SMALL_PKT == 4

\* a null pointer / null usb_device_t
NULL == 0

\* usb_role_t, reduced to the bit the code tests (role & USB_ROLE_DEVICE)
USB_ROLE_HOST == "HOST"
USB_ROLE_DEVICE == "DEVICE"

\* ------------------------------------------------------ the USB devices
\* What the adapter returns for a device handle.  Owned pointers of the
\* client (char*, unsigned char*) are sequences of length <= 1: <<>> is NULL
\* and <<v>> is an allocation holding v.  A string descriptor is the
\* sequence of its characters.
Handles == 1..NumDevices

\* usb_GetDescriptor(device, USB_DEVICE_DESCRIPTOR, ...): handles 1, 4, ..
\* are in DFU mode, 2, 5, .. in recovery mode, 3, 6, .. are Apple devices
\* in normal mode (product id 0x12A8), which the library does not support.
DeviceDescriptorOf(h) ==
    CASE h % 3 = 1 -> [idVendor |-> APPLE_VENDOR_ID, idProduct |-> IRECOVERY_K_DFU_MODE, iSerialNumber |-> 4]
      [] h % 3 = 2 -> [idVendor |-> APPLE_VENDOR_ID, idProduct |-> IRECOVERY_K_RECOVERY_MODE_2, iSerialNumber |-> 3]
      [] OTHER     -> [idVendor |-> APPLE_VENDOR_ID, idProduct |-> 4776, iSerialNumber |-> 3]

\* the digit that tells device h from the others
DigitOf(h) == << <<"0", "1", "2", "3", "4", "5", "6", "7", "8", "9">>[(h % 10) + 1] >>

\* the identity string on iSerialNumber; the ECID of device h is h
IdentityString(h) ==
    IF h % 3 = 1
    THEN <<"C", "P", "I", "D", ":", "8", "0", "1", "0", " ", "E", "C", "I", "D", ":">> \o DigitOf(h) \o <<" ", "S", "R", "T", "G", ":", "[", "i", "B", "o", "o", "t", "-", "3", "4", "0", "1", "]", " ", "P", "W", "N", "D", ":", "[", "c", "h", "e", "c", "k", "m", "8", "]">>
    ELSE <<"C", "P", "I", "D", ":", "8", "0", "1", "5", " ", "B", "D", "I", "D", ":", "0", "8", " ", "E", "C", "I", "D", ":">> \o DigitOf(h) \o <<" ", "S", "R", "N", "M", ":", "[", "F", "2", "X", "]">>

\* the nonce string on string descriptor 1
NonceString(h) ==
    <<"N", "O", "N", "C", ":", "a", "a", "0">> \o DigitOf(h) \o <<" ", "S", "N", "O", "N", ":", "1", "1", "0">> \o DigitOf(h)

\* usb_GetStringDescriptor(handle, desc_index, ...): <<>> when the device
\* has no such string
StringDescriptorOf(h, desc_index) ==
    IF desc_index = 1 THEN << NonceString(h) >>
    ELSE IF desc_index = DeviceDescriptorOf(h).iSerialNumber THEN << IdentityString(h) >>
    ELSE << >>

\* ECID restrictions a client is constructed with (0: none; 1: device 1)
EcidRestrictions == {0, 1}

\* -------------------------------------------------------------- the state
VARIABLES
    client,      \* struct irecovery_client
    role,        \* usb_GetRole()
    pc,          \* position of the API call in progress ("idle": none)
    nev,         \* events dispatched by the current usb_HandleEvents()
    desc_index,  \* argument of the string-descriptor fetch in progress
    ret,         \* return value of the last completed API call
    last,        \* the step taken last
    xfer         \* locals of irecovery_send_buffer and the transfers it made

vars == <<client, role, pc, nev, desc_index, ret, last, xfer>>

ZeroDescriptor == [idVendor |-> 0, idProduct |-> 0, iSerialNumber |-> 0]

ZeroDeviceInfo ==
    [cpid |-> 0, cprv |-> 0, cpfm |-> 0, scep |-> 0, bdid |-> 0, ecid |-> 0, ibfl |-> 0,
     srnm |-> <<>>, imei |-> <<>>, srtg |-> <<>>, serial_string |-> <<>>, pwnd |-> <<>>,
     ap_nonce |-> <<>>, ap_nonce_size |-> 0, sep_nonce |-> <<>>, sep_nonce_size |-> 0,
     pid |-> 0]

\* the fields from DEVICE_ZONE_OFFSET to the end of the struct, all zero
ZeroDeviceZone ==
    [handle |-> NULL, device_descriptor |-> ZeroDescriptor, device_info |-> ZeroDeviceInfo,
     mode |-> 0, finalized |-> 0, progress_callback |-> NULL]

DeviceZoneFields == DOMAIN ZeroDeviceZone

DeviceZone(c) == [f \in DeviceZoneFields |-> c[f]]

device_zone_nonzero(c) == DeviceZone(c) # ZeroDeviceZone

\* memset of the device zone; the static zone keeps its values
irecovery_client_clear_device_zone(c) ==
    [f \in DOMAIN c |-> IF f \in DeviceZoneFields THEN ZeroDeviceZone[f] ELSE c[f]]

\* irecovery_client_is_usable, after its optional usb_HandleEvents()
irecovery_client_is_usable_RoleOnly(c, r) == r # USB_ROLE_DEVICE

irecovery_client_is_usable(c, r) ==
    c.handle # NULL /\ r # USB_ROLE_DEVICE /\ device_zone_nonzero(c)

\* mutant of IsSupportedDescriptor: every Apple device is supported
IsSupportedDescriptor_AnyAppleProduct(d) == d.idVendor = APPLE_VENDOR_ID

\* the vendor / product test of irecovery_device_is_supported
IsSupportedDescriptor(d) ==
    d.idVendor = APPLE_VENDOR_ID
    /\ d.idProduct \in {IRECOVERY_K_RECOVERY_MODE_1, IRECOVERY_K_RECOVERY_MODE_2,
                        IRECOVERY_K_RECOVERY_MODE_3, IRECOVERY_K_RECOVERY_MODE_4,
                        IRECOVERY_K_WTF_MODE, IRECOVERY_K_DFU_MODE}

\* irecovery_device_is_supported(device, &client->device_descriptor):
\* the descriptor is stored whenever it was fetched completely
irecovery_device_is_supported(c, device, fetch_ok) ==
    IF device = NULL \/ ~fetch_ok
    THEN [supported |-> FALSE, c |-> c]
    ELSE [supported |-> IsSupportedDescriptor(DeviceDescriptorOf(device)),
          c |-> [c EXCEPT !.device_descriptor = DeviceDescriptorOf(device)]]


\* ------------------------------------------------------- identity parser
\* A C string is the sequence of its characters; a char* into it is the
\* index of the character it points at, NULL when there is none.
HexDigits == <<"0", "1", "2", "3", "4", "5", "6", "7", "8", "9", "a", "b", "c", "d", "e", "f">>

HexDigitsUpper == <<"0", "1", "2", "3", "4", "5", "6", "7", "8", "9", "A", "B", "C", "D", "E", "F">>

IsHexDigit(ch) == \E d \in 1..16 : ch \in {HexDigits[d], HexDigitsUpper[d]}

HexDigitValue(ch) == (CHOOSE d \in 1..16 : ch \in {HexDigits[d], HexDigitsUpper[d]}) - 1

\* isspace()
IsSpace(ch) == ch \in {" ", "\t", "\n", "\r"}

\* strncmp(s + i, t, strlen(t)) == 0, with i an index into s
MatchesAt(s, t, i) ==
    i >= 1 /\ i + Len(t) - 1 <= Len(s) /\ \A j \in 1..Len(t) : s[i + j - 1] = t[j]

\* mutant of strstr: t is found only where s begins
strstr_AtStart(s, t) == IF MatchesAt(s, t, 1) THEN 1 ELSE NULL

\* strstr(s, t): the first occurrence of t in s
strstr(s, t) ==
    IF \E i \in 1..Len(s) : MatchesAt(s, t, i)
    THEN CHOOSE i \in 1..Len(s) :
             MatchesAt(s, t, i) /\ \A k \in 1..(i - 1) : ~MatchesAt(s, t, k)
    ELSE NULL

\* strchr(s + p, ch), with p an index into s (or one past its end)
strchr(s, p, ch) ==
    IF \E i \in p..Len(s) : s[i] = ch
    THEN CHOOSE i \in p..Len(s) : s[i] = ch /\ \A k \in p..(i - 1) : s[k] # ch
    ELSE NULL

\* mutant of strrchr: the first occurrence instead of the last
strrchr_First(s, ch) == strchr(s, 1, ch)

\* strrchr(s, ch): the last occurrence of ch in s
strrchr(s, ch) ==
    IF \E i \in 1..Len(s) : s[i] = ch
    THEN CHOOSE i \in 1..Len(s) : s[i] = ch /\ \A k \in (i + 1)..Len(s) : s[k] # ch
    ELSE NULL

\* the index of the first character at or after p that is not white space
SkipSpace(s, p) ==
    IF \E i \in p..Len(s) : ~IsSpace(s[i])
    THEN CHOOSE i \in p..Len(s) : ~IsSpace(s[i]) /\ \A k \in p..(i - 1) : IsSpace(s[k])
    ELSE Len(s) + 1

\* the number of hexadecimal digits at p, at most width of them
HexRun(s, p, width) ==
    LET most == IF Len(s) - p + 1 < width THEN Len(s) - p + 1 ELSE width
    IN  IF most <= 0 THEN 0
        ELSE CHOOSE n \in 0..most :
                 /\ \A k \in 0..(n - 1) : IsHexDigit(s[p + k])
                 /\ (n < most => ~IsHexDigit(s[p + n]))

RECURSIVE HexNumber(_, _, _)
\* the value of the n hexadecimal digits of s that start at p
HexNumber(s, p, n) ==
    IF n = 0 THEN 0 ELSE 16 * HexNumber(s, p, n - 1) + HexDigitValue(s[p + n - 1])

\* the conversion %x (%2x: width 2; no width: any) applied at p: white space is skipped,
\* then the hexadecimal digits are read; n is the number of conversions
ScanHex(s, p, width) ==
    LET q == SkipSpace(s, p)
        k == HexRun(s, q, width)
    IN  IF k = 0 THEN [n |-> 0, val |-> 0] ELSE [n |-> 1, val |-> HexNumber(s, q, k)]

\* the conversion %s applied at p: white space is skipped, then the
\* characters up to the next white space are read
ScanWord(s, p) ==
    LET q == SkipSpace(s, p)
        e == IF \E i \in q..Len(s) : IsSpace(s[i])
             THEN (CHOOSE i \in q..Len(s) : IsSpace(s[i]) /\ \A k \in q..(i - 1) : ~IsSpace(s[k])) - 1
             ELSE Len(s)
    IN  SubSeq(s, q, e)

\* ptr = strstr(str, "TAG:"); if (ptr) nsscanf(ptr, "TAG:%x", &field): the
\* field keeps the zero of the memset when nothing is converted
ScanNumber(str, tag) ==
    LET ptr == strstr(str, tag)
    IN  IF ptr = NULL THEN 0 ELSE ScanHex(str, ptr + Len(tag), Len(str)).val

\* ptr = strstr(str, "TAG:["); if (ptr) { nsscanf(ptr, "TAG:[%s]", tmp);
\* ptr = strrchr(tmp, ']'); if (ptr) *ptr = '\0'; field = strdup(tmp); }
ScanString(str, tag) ==
    LET ptr == strstr(str, tag)
        tmp == ScanWord(str, ptr + Len(tag))
        end == strrchr(tmp, "]")
    IN  IF ptr = NULL THEN << >>
        ELSE IF end = NULL THEN << tmp >>
        ELSE << SubSeq(tmp, 1, end - 1) >>

\* irecovery_load_device_info_from_iboot_string: device_info is zeroed and
\* filled from the string, pid and mode are the stored product id
irecovery_load_device_info_from_iboot_string(c, iboot_string) ==
    [c EXCEPT
       !.device_info =
           [ZeroDeviceInfo EXCEPT
              !.serial_string = << iboot_string >>,
              !.cpid = ScanNumber(iboot_string, <<"C", "P", "I", "D", ":">>),
              !.cprv = ScanNumber(iboot_string, <<"C", "P", "R", "V", ":">>),
              !.cpfm = ScanNumber(iboot_string, <<"C", "P", "F", "M", ":">>),
              !.scep = ScanNumber(iboot_string, <<"S", "C", "E", "P", ":">>),
              !.bdid = ScanNumber(iboot_string, <<"B", "D", "I", "D", ":">>),
              !.ecid = ScanNumber(iboot_string, <<"E", "C", "I", "D", ":">>),
              !.ibfl = ScanNumber(iboot_string, <<"I", "B", "F", "L", ":">>),
              !.srnm = ScanString(iboot_string, <<"S", "R", "N", "M", ":", "[">>),
              !.imei = ScanString(iboot_string, <<"I", "M", "E", "I", ":", "[">>),
              !.srtg = ScanString(iboot_string, <<"S", "R", "T", "G", ":", "[">>),
              !.pwnd = ScanString(iboot_string, <<"P", "W", "N", "D", ":", "[">>),
              !.pid  = c.device_descriptor.idProduct],
       !.mode = c.device_descriptor.idProduct]

\* the do-while of irecovery_copy_nonce_with_tag_from_buffer from token p:
\* where the digits of the tag start and how many whole bytes they make
RECURSIVE FindNonce(_, _, _)
FindNonce(buf, tag, p) ==
    LET colon == strchr(buf, p, ":")
        space == strchr(buf, colon, " ")
    IN  IF colon = NULL \/ colon - Len(tag) < p THEN [nonce_string |-> NULL, nlen |-> 0]
        ELSE IF MatchesAt(buf, tag, colon - Len(tag))
        THEN [nonce_string |-> colon + 1,
              nlen |-> (IF space = NULL THEN Len(buf) - colon ELSE space - (colon + 1)) \div 2]
        ELSE IF space = NULL THEN [nonce_string |-> NULL, nlen |-> 0]
        ELSE FindNonce(buf, tag, space + 1)

\* irecovery_copy_nonce_with_tag_from_buffer: the bytes after "TAG:", or
\* nothing when the tag is missing, carries no whole byte, or some pair of
\* characters is not converted by %2x
NonceBytes(buf, tag) ==
    LET found == FindNonce(buf, tag, 1)
        pair(i) == ScanHex(buf, found.nonce_string + 2 * (i - 1), 2)
    IN  IF found.nlen = 0 THEN << >>
        ELSE IF \E i \in 1..found.nlen : pair(i).n # 1 THEN << >>
        ELSE [i \in 1..found.nlen |-> pair(i).val]

\* ------------------------------------------------- string descriptor fetch
\* outcomes of the adapter / allocator inside one descriptor fetch
FetchOutcomes == {"ok", "fail", "nomem"}

\* irecovery_get_string_descriptor_ascii, after the usb_HandleEvents() of
\* its usability test: [ret, buf]
irecovery_get_string_descriptor_ascii(c, r, index, outcome) ==
    IF ~irecovery_client_is_usable(c, r)
    THEN [ret |-> IRECOVERY_E_NO_DEVICE, buf |-> << >>]
    ELSE IF outcome = "nomem"
    THEN [ret |-> IRECOVERY_E_NO_MEMORY, buf |-> << >>]
    ELSE IF outcome = "fail" \/ StringDescriptorOf(c.handle, index) = << >>
    THEN [ret |-> IRECOVERY_E_DESCRIPTOR_FETCH_FAILED, buf |-> << >>]
    ELSE [ret |-> Len(StringDescriptorOf(c.handle, index)[1]),
          buf |-> StringDescriptorOf(c.handle, index)[1]]

\* ------------------------------------------------------ set configuration
SetConfigurationOutcomes == {"ok", "no_length", "nomem", "fetch_fail", "set_fail"}

\* irecovery_get_total_configuration_descriptor
irecovery_get_total_configuration_descriptor(outcome) ==
    CASE outcome = "no_length"  -> IRECOVERY_E_DESCRIPTOR_FETCH_FAILED
      [] outcome = "nomem"      -> IRECOVERY_E_NO_MEMORY
      [] outcome = "fetch_fail" -> IRECOVERY_E_DESCRIPTOR_FETCH_FAILED
      [] OTHER                  -> IRECOVERY_E_SUCCESS

\* irecovery_usb_set_configuration, after the usb_HandleEvents() of its
\* usability test
irecovery_usb_set_configuration(c, r, outcome) ==
    IF ~irecovery_client_is_usable(c, r) THEN IRECOVERY_E_NO_DEVICE
    ELSE IF irecovery_get_total_configuration_descriptor(outcome) # IRECOVERY_E_SUCCESS
    THEN irecovery_get_total_configuration_descriptor(outcome)
    ELSE IF outcome = "set_fail" THEN IRECOVERY_E_DESCRIPTOR_SET_FAILED
    ELSE IRECOVERY_E_SUCCESS


\* ------------------------------------------------------------- USB events
NoEvent == [type |-> "NONE", dev |-> NULL, role |-> USB_ROLE_HOST, fetch_ok |-> TRUE]

\* the events the adapter can deliver; fetch_ok is the outcome of the
\* usb_GetDescriptor call the handler makes for an enabled device
RoleEvents ==
    {[type |-> "USB_ROLE_CHANGED_EVENT", dev |-> NULL, role |-> r, fetch_ok |-> TRUE] :
        r \in {USB_ROLE_HOST, USB_ROLE_DEVICE}}

DeviceEvents ==
    {[type |-> t, dev |-> h, role |-> USB_ROLE_HOST, fetch_ok |-> TRUE] :
        t \in {"USB_DEVICE_DISCONNECTED_EVENT", "USB_DEVICE_CONNECTED_EVENT",
               "USB_DEVICE_DISABLED_EVENT"},
        h \in Handles}

EnabledEvents ==
    {[type |-> "USB_DEVICE_ENABLED_EVENT", dev |-> h, role |-> USB_ROLE_HOST, fetch_ok |-> b] :
        h \in Handles, b \in BOOLEAN}

Events == RoleEvents \cup DeviceEvents \cup EnabledEvents

\* mutant of PolicyAllows: a usable current device does not stop the
\* admission under accept-only-when-none
PolicyAllows_AdmitWhileConnected(c, r) ==
    c.connection_policy = IRECOVERY_CLIENT_DEVICE_POLICY_ONE_CONNECTION_LIMIT
       => c.num_connections # 1

\* the admission decision of the enabled case: TRUE when the policy lets the
\* handler go on to the adoption attempt
PolicyAllows(c, r) ==
    CASE c.connection_policy = IRECOVERY_CLIENT_DEVICE_POLICY_ACCEPT_ALL -> TRUE
      [] c.connection_policy = IRECOVERY_CLIENT_DEVICE_POLICY_ACCEPT_ONLY_WHEN_NO_CURRENT_CONNECTION ->
             ~irecovery_client_is_usable(c, r)
      [] c.connection_policy = IRECOVERY_CLIENT_DEVICE_POLICY_ONE_CONNECTION_LIMIT ->
             c.num_connections # 1
      [] OTHER -> TRUE

\* mutant of PolicyPrepare: accept-all does not clear the device zone
PolicyPrepare_NoClear(c) == c

\* what the policy branch does to the client before the adoption attempt
PolicyPrepare(c) ==
    IF c.connection_policy = IRECOVERY_CLIENT_DEVICE_POLICY_ACCEPT_ALL
    THEN irecovery_client_clear_device_zone(c)
    ELSE c

\* mutant of Adopt: the handler marks the device it adopts finalized
Adopt_MarksFinalized(c, device, fetch_ok) ==
    LET s == irecovery_device_is_supported(c, device, fetch_ok)
    IN  IF s.supported
        THEN [s.c EXCEPT !.handle = device, !.finalized = 1]
        ELSE irecovery_client_clear_device_zone(s.c)

\* the adoption attempt: the descriptor test, then the handle is stored or
\* the device zone is cleared
Adopt(c, device, fetch_ok) ==
    LET s == irecovery_device_is_supported(c, device, fetch_ok)
    IN  IF s.supported
        THEN [s.c EXCEPT !.handle = device]
        ELSE irecovery_client_clear_device_zone(s.c)

\* usb_event_handler clearing the zone on the disconnect of any device
usb_event_handler_AnyDisconnectClears(c, r, e) ==
    CASE e.type = "USB_ROLE_CHANGED_EVENT" ->
             IF e.role = USB_ROLE_DEVICE THEN irecovery_client_clear_device_zone(c) ELSE c
      [] e.type = "USB_DEVICE_DISCONNECTED_EVENT" -> irecovery_client_clear_device_zone(c)
      [] e.type = "USB_DEVICE_ENABLED_EVENT" ->
             IF r = USB_ROLE_DEVICE THEN c
             ELSE IF e.dev = c.handle THEN c
             ELSE IF ~PolicyAllows(c, r) THEN c
             ELSE Adopt(PolicyPrepare(c), e.dev, e.fetch_ok)
      [] OTHER -> c

\* usb_event_handler without the test for the handle it already holds
usb_event_handler_ReenableAdopts(c, r, e) ==
    CASE e.type = "USB_ROLE_CHANGED_EVENT" ->
             IF e.role = USB_ROLE_DEVICE THEN irecovery_client_clear_device_zone(c) ELSE c
      [] e.type = "USB_DEVICE_DISCONNECTED_EVENT" ->
             IF e.dev = c.handle THEN irecovery_client_clear_device_zone(c) ELSE c
      [] e.type = "USB_DEVICE_ENABLED_EVENT" ->
             IF r = USB_ROLE_DEVICE THEN c
             ELSE IF ~PolicyAllows(c, r) THEN c
             ELSE Adopt(PolicyPrepare(c), e.dev, e.fetch_ok)
      [] OTHER -> c

\* usb_event_handler: the client after event e, with r the role usb_GetRole()
\* reports while the handler runs
usb_event_handler(c, r, e) ==
    CASE e.type = "USB_ROLE_CHANGED_EVENT" ->
             IF e.role = USB_ROLE_DEVICE THEN irecovery_client_clear_device_zone(c) ELSE c
      [] e.type = "USB_DEVICE_DISCONNECTED_EVENT" ->
             IF e.dev = c.handle THEN irecovery_client_clear_device_zone(c) ELSE c
      [] e.type = "USB_DEVICE_CONNECTED_EVENT" -> c
      [] e.type = "USB_DEVICE_DISABLED_EVENT" -> c
      [] e.type = "USB_DEVICE_ENABLED_EVENT" ->
             IF r = USB_ROLE_DEVICE THEN c
             ELSE IF e.dev = c.handle THEN c
             ELSE IF ~PolicyAllows(c, r) THEN c
             ELSE Adopt(PolicyPrepare(c), e.dev, e.fetch_ok)
      [] OTHER -> c

\* ------------------------------------------------------------ finalization
\* mutant of FinalizeEntry: the blocked test is missing, so a blocked client
\* is identified again
FinalizeEntry_RetryBlocked(c, r) ==
    IF ~irecovery_client_is_usable(c, r) THEN IRECOVERY_E_NO_DEVICE
    ELSE IF c.finalized > 0 THEN IRECOVERY_E_SUCCESS
    ELSE 1

\* lines 807-812 of irecovery_finalize_client: the code it returns with, or
\* 1 when it goes on to identify the device
FinalizeEntry(c, r) ==
    IF ~irecovery_client_is_usable(c, r) THEN IRECOVERY_E_NO_DEVICE
    ELSE IF c.finalized > 0 THEN IRECOVERY_E_SUCCESS
    ELSE IF c.finalized < 0 THEN IRECOVERY_E_FINALIZATION_BLOCKED
    ELSE 1

\* mutant of EcidMismatch: restriction 0 is compared like any other value
EcidMismatch_ZeroRestricts(c) == c.ecid_restriction # c.device_info.ecid

\* the ECID check of irecovery_finalize_client
EcidMismatch(c) ==
    c.ecid_restriction # 0 /\ c.ecid_restriction # c.device_info.ecid

\* irecovery_copy_nonce_with_tag goes on to fetch string descriptor 1
CopyNonceProceeds(c, r, field) ==
    irecovery_client_is_usable(c, r) /\ c.device_info[field] = << >>

\* the nonce stored by irecovery_copy_nonce_with_tag after its fetch
StoreNonce(c, field, size_field, tag, res) ==
    IF res.ret < 0 \/ Len(NonceBytes(res.buf, tag)) = 0 THEN c
    ELSE [c EXCEPT !.device_info[field] = << NonceBytes(res.buf, tag) >>,
                   !.device_info[size_field] = Len(NonceBytes(res.buf, tag))]


\* ------------------------------------------------------------------ CRC-32
\* A uint32_t is the tuple of its four bytes, least significant first:
\* 0x77073096 is <<150, 48, 7, 119>>.
crc32_lookup_t1 ==
  <<
    <<0, 0, 0, 0>>, <<150, 48, 7, 119>>, <<44, 97, 14, 238>>, <<186, 81, 9, 153>>,
    <<25, 196, 109, 7>>, <<143, 244, 106, 112>>, <<53, 165, 99, 233>>, <<163, 149, 100, 158>>,
    <<50, 136, 219, 14>>, <<164, 184, 220, 121>>, <<30, 233, 213, 224>>, <<136, 217, 210, 151>>,
    <<43, 76, 182, 9>>, <<189, 124, 177, 126>>, <<7, 45, 184, 231>>, <<145, 29, 191, 144>>,
    <<100, 16, 183, 29>>, <<242, 32, 176, 106>>, <<72, 113, 185, 243>>, <<222, 65, 190, 132>>,
    <<125, 212, 218, 26>>, <<235, 228, 221, 109>>, <<81, 181, 212, 244>>, <<199, 133, 211, 131>>,
    <<86, 152, 108, 19>>, <<192, 168, 107, 100>>, <<122, 249, 98, 253>>, <<236, 201, 101, 138>>,
    <<79, 92, 1, 20>>, <<217, 108, 6, 99>>, <<99, 61, 15, 250>>, <<245, 13, 8, 141>>,
    <<200, 32, 110, 59>>, <<94, 16, 105, 76>>, <<228, 65, 96, 213>>, <<114, 113, 103, 162>>,
    <<209, 228, 3, 60>>, <<71, 212, 4, 75>>, <<253, 133, 13, 210>>, <<107, 181, 10, 165>>,
    <<250, 168, 181, 53>>, <<108, 152, 178, 66>>, <<214, 201, 187, 219>>, <<64, 249, 188, 172>>,
    <<227, 108, 216, 50>>, <<117, 92, 223, 69>>, <<207, 13, 214, 220>>, <<89, 61, 209, 171>>,
    <<172, 48, 217, 38>>, <<58, 0, 222, 81>>, <<128, 81, 215, 200>>, <<22, 97, 208, 191>>,
    <<181, 244, 180, 33>>, <<35, 196, 179, 86>>, <<153, 149, 186, 207>>, <<15, 165, 189, 184>>,
    <<158, 184, 2, 40>>, <<8, 136, 5, 95>>, <<178, 217, 12, 198>>, <<36, 233, 11, 177>>,
    <<135, 124, 111, 47>>, <<17, 76, 104, 88>>, <<171, 29, 97, 193>>, <<61, 45, 102, 182>>,
    <<144, 65, 220, 118>>, <<6, 113, 219, 1>>, <<188, 32, 210, 152>>, <<42, 16, 213, 239>>,
    <<137, 133, 177, 113>>, <<31, 181, 182, 6>>, <<165, 228, 191, 159>>, <<51, 212, 184, 232>>,
    <<162, 201, 7, 120>>, <<52, 249, 0, 15>>, <<142, 168, 9, 150>>, <<24, 152, 14, 225>>,
    <<187, 13, 106, 127>>, <<45, 61, 109, 8>>, <<151, 108, 100, 145>>, <<1, 92, 99, 230>>,
    <<244, 81, 107, 107>>, <<98, 97, 108, 28>>, <<216, 48, 101, 133>>, <<78, 0, 98, 242>>,
    <<237, 149, 6, 108>>, <<123, 165, 1, 27>>, <<193, 244, 8, 130>>, <<87, 196, 15, 245>>,
    <<198, 217, 176, 101>>, <<80, 233, 183, 18>>, <<234, 184, 190, 139>>, <<124, 136, 185, 252>>,
    <<223, 29, 221, 98>>, <<73, 45, 218, 21>>, <<243, 124, 211, 140>>, <<101, 76, 212, 251>>,
    <<88, 97, 178, 77>>, <<206, 81, 181, 58>>, <<116, 0, 188, 163>>, <<226, 48, 187, 212>>,
    <<65, 165, 223, 74>>, <<215, 149, 216, 61>>, <<109, 196, 209, 164>>, <<251, 244, 214, 211>>,
    <<106, 233, 105, 67>>, <<252, 217, 110, 52>>, <<70, 136, 103, 173>>, <<208, 184, 96, 218>>,
    <<115, 45, 4, 68>>, <<229, 29, 3, 51>>, <<95, 76, 10, 170>>, <<201, 124, 13, 221>>,
    <<60, 113, 5, 80>>, <<170, 65, 2, 39>>, <<16, 16, 11, 190>>, <<134, 32, 12, 201>>,
    <<37, 181, 104, 87>>, <<179, 133, 111, 32>>, <<9, 212, 102, 185>>, <<159, 228, 97, 206>>,
    <<14, 249, 222, 94>>, <<152, 201, 217, 41>>, <<34, 152, 208, 176>>, <<180, 168, 215, 199>>,
    <<23, 61, 179, 89>>, <<129, 13, 180, 46>>, <<59, 92, 189, 183>>, <<173, 108, 186, 192>>,
    <<32, 131, 184, 237>>, <<182, 179, 191, 154>>, <<12, 226, 182, 3>>, <<154, 210, 177, 116>>,
    <<57, 71, 213, 234>>, <<175, 119, 210, 157>>, <<21, 38, 219, 4>>, <<131, 22, 220, 115>>,
    <<18, 11, 99, 227>>, <<132, 59, 100, 148>>, <<62, 106, 109, 13>>, <<168, 90, 106, 122>>,
    <<11, 207, 14, 228>>, <<157, 255, 9, 147>>, <<39, 174, 0, 10>>, <<177, 158, 7, 125>>,
    <<68, 147, 15, 240>>, <<210, 163, 8, 135>>, <<104, 242, 1, 30>>, <<254, 194, 6, 105>>,
    <<93, 87, 98, 247>>, <<203, 103, 101, 128>>, <<113, 54, 108, 25>>, <<231, 6, 107, 110>>,
    <<118, 27, 212, 254>>, <<224, 43, 211, 137>>, <<90, 122, 218, 16>>, <<204, 74, 221, 103>>,
    <<111, 223, 185, 249>>, <<249, 239, 190, 142>>, <<67, 190, 183, 23>>, <<213, 142, 176, 96>>,
    <<232, 163, 214, 214>>, <<126, 147, 209, 161>>, <<196, 194, 216, 56>>, <<82, 242, 223, 79>>,
    <<241, 103, 187, 209>>, <<103, 87, 188, 166>>, <<221, 6, 181, 63>>, <<75, 54, 178, 72>>,
    <<218, 43, 13, 216>>, <<76, 27, 10, 175>>, <<246, 74, 3, 54>>, <<96, 122, 4, 65>>,
    <<195, 239, 96, 223>>, <<85, 223, 103, 168>>, <<239, 142, 110, 49>>, <<121, 190, 105, 70>>,
    <<140, 179, 97, 203>>, <<26, 131, 102, 188>>, <<160, 210, 111, 37>>, <<54, 226, 104, 82>>,
    <<149, 119, 12, 204>>, <<3, 71, 11, 187>>, <<185, 22, 2, 34>>, <<47, 38, 5, 85>>,
    <<190, 59, 186, 197>>, <<40, 11, 189, 178>>, <<146, 90, 180, 43>>, <<4, 106, 179, 92>>,
    <<167, 255, 215, 194>>, <<49, 207, 208, 181>>, <<139, 158, 217, 44>>, <<29, 174, 222, 91>>,
    <<176, 194, 100, 155>>, <<38, 242, 99, 236>>, <<156, 163, 106, 117>>, <<10, 147, 109, 2>>,
    <<169, 6, 9, 156>>, <<63, 54, 14, 235>>, <<133, 103, 7, 114>>, <<19, 87, 0, 5>>,
    <<130, 74, 191, 149>>, <<20, 122, 184, 226>>, <<174, 43, 177, 123>>, <<56, 27, 182, 12>>,
    <<155, 142, 210, 146>>, <<13, 190, 213, 229>>, <<183, 239, 220, 124>>, <<33, 223, 219, 11>>,
    <<212, 210, 211, 134>>, <<66, 226, 212, 241>>, <<248, 179, 221, 104>>, <<110, 131, 218, 31>>,
    <<205, 22, 190, 129>>, <<91, 38, 185, 246>>, <<225, 119, 176, 111>>, <<119, 71, 183, 24>>,
    <<230, 90, 8, 136>>, <<112, 106, 15, 255>>, <<202, 59, 6, 102>>, <<92, 11, 1, 17>>,
    <<255, 158, 101, 143>>, <<105, 174, 98, 248>>, <<211, 255, 107, 97>>, <<69, 207, 108, 22>>,
    <<120, 226, 10, 160>>, <<238, 210, 13, 215>>, <<84, 131, 4, 78>>, <<194, 179, 3, 57>>,
    <<97, 38, 103, 167>>, <<247, 22, 96, 208>>, <<77, 71, 105, 73>>, <<219, 119, 110, 62>>,
    <<74, 106, 209, 174>>, <<220, 90, 214, 217>>, <<102, 11, 223, 64>>, <<240, 59, 216, 55>>,
    <<83, 174, 188, 169>>, <<197, 158, 187, 222>>, <<127, 207, 178, 71>>, <<233, 255, 181, 48>>,
    <<28, 242, 189, 189>>, <<138, 194, 186, 202>>, <<48, 147, 179, 83>>, <<166, 163, 180, 36>>,
    <<5, 54, 208, 186>>, <<147, 6, 215, 205>>, <<41, 87, 222, 84>>, <<191, 103, 217, 35>>,
    <<46, 122, 102, 179>>, <<184, 74, 97, 196>>, <<2, 27, 104, 93>>, <<148, 43, 111, 42>>,
    <<55, 190, 11, 180>>, <<161, 142, 12, 195>>, <<27, 223, 5, 90>>, <<141, 239, 2, 45>>
  >>

\* a ^ b on 4-bit values
Xor4 ==
    [a \in 0..15 |-> [b \in 0..15 |->
        ((a + b) % 2) + 2 * (((a \div 2) + (b \div 2)) % 2)
        + 4 * (((a \div 4) + (b \div 4)) % 2) + 8 * (((a \div 8) + (b \div 8)) % 2)]]

\* a ^ b on bytes
Xor8(a, b) == Xor4[a % 16][b % 16] + 16 * Xor4[a \div 16][b \div 16]

\* a ^ b on uint32_t
Xor32(a, b) == <<Xor8(a[1], b[1]), Xor8(a[2], b[2]), Xor8(a[3], b[3]), Xor8(a[4], b[4])>>

\* the table indexed with the data byte alone
crc32_step_IndexByData(a, b) ==
    Xor32(crc32_lookup_t1[b + 1], <<a[2], a[3], a[4], 0>>)

\* crc32_step(a, b): a = crc32_lookup_t1[(a & 0xFF) ^ b] ^ (a >> 8)
crc32_step(a, b) ==
    Xor32(crc32_lookup_t1[Xor8(a[1], b) + 1], <<a[2], a[3], a[4], 0>>)

\* buffer[k] of the payload the application uploads
Buffer(k) == (k * 37 + 11) % 256

\* the loop crc32_step(h1, buffer[lo]) .. crc32_step(h1, buffer[hi]); the
\* range is halved so that the evaluation does not nest hi - lo deep
RECURSIVE CrcOverBuffer(_, _, _)
CrcOverBuffer(h1, lo, hi) ==
    IF lo > hi THEN h1
    ELSE IF lo = hi THEN crc32_step(h1, Buffer(lo))
    ELSE LET mid  == (lo + hi) \div 2
             left == CrcOverBuffer(h1, lo, mid)
         IN  IF left[1] >= 0 THEN CrcOverBuffer(left, mid + 1, hi) ELSE left

dfu_xbuf == <<255, 255, 255, 255, 172, 5, 0, 1, 85, 70, 68, 16>>

\* the twelve crc32_step calls over dfu_xbuf, from byte k on
RECURSIVE CrcOverXbuf(_, _)
CrcOverXbuf(h1, k) ==
    IF k > Len(dfu_xbuf) THEN h1 ELSE CrcOverXbuf(crc32_step(h1, dfu_xbuf[k]), k + 1)

\* the sixteen bytes newbuf holds after the payload: dfu_xbuf, then h1 & 0xFF,
\* (h1 >> 8) & 0xFF, (h1 >> 16) & 0xFF, (h1 >> 24) & 0xFF
DfuTrailer(h1) == dfu_xbuf \o <<h1[1], h1[2], h1[3], h1[4]>>

\* ------------------------------------------------------------ USB transfers
\* outcomes of usb_ControlTransfer / usb_Transfer: everything transferred,
\* less than asked for, or an error
TransferOutcomes == {"ok", "short", "fail"}

\* outcomes of the control transfer of a GETSTATUS poll: six bytes read, or
\* anything else
StatusOutcomes == {"ok", "fail"}

\* bytes the adapter reports as transferred
Transferred(length, outcome) ==
    IF outcome = "short" /\ length > 0 THEN length - 1 ELSE length

\* irecovery_usb_control_transfer, after the usb_HandleEvents() of its
\* usability test: the transferred bytes or a negative error code
irecovery_usb_control_transfer(c, r, w_length, outcome) ==
    IF ~irecovery_client_is_usable(c, r) THEN IRECOVERY_E_NO_DEVICE
    ELSE IF outcome = "fail" THEN IRECOVERY_E_USB_UPLOAD_FAILED
    ELSE Transferred(w_length, outcome)

\* irecovery_usb_bulk_transfer, after the usb_HandleEvents() of its usability
\* test: its return value, and *transferred (bytes when it is not written)
irecovery_usb_bulk_transfer(c, r, length, outcome, bytes) ==
    IF ~irecovery_client_is_usable(c, r)
    THEN [ret |-> IRECOVERY_E_NO_DEVICE, transferred |-> bytes]
    ELSE IF outcome = "fail"
    THEN [ret |-> IRECOVERY_E_USB_UPLOAD_FAILED, transferred |-> bytes]
    ELSE [ret |-> Transferred(length, outcome), transferred |-> Transferred(length, outcome)]

\* bState values the device reports in a DFU GETSTATE reply: 2 dfuIDLE,
\* 5 dfuDNLOAD-IDLE, 10 dfuERROR; and in a GETSTATUS reply: 4 dfuDNBUSY,
\* 5 dfuDNLOAD-IDLE
DfuStates == {2, 5, 10}

DfuStatusStates == {4, 5}

\* irecovery_get_status, after its usb_HandleEvents(): [ret, status]
irecovery_get_status(c, r, outcome, state) ==
    IF ~irecovery_client_is_usable(c, r)
    THEN [ret |-> IRECOVERY_E_NO_DEVICE, status |-> 0]
    ELSE IF irecovery_usb_control_transfer(c, r, 6, outcome) # 6
    THEN [ret |-> IRECOVERY_E_INVALID_USB_STATUS, status |-> 0]
    ELSE [ret |-> IRECOVERY_E_SUCCESS, status |-> state]

\* one call of the USB adapter on a device handle
Frame(c, kind, bmRequestType, bRequest, wValue, wIndex, offset, size, trailer) ==
    [kind |-> kind, handle |-> c.handle, bmRequestType |-> bmRequestType,
     bRequest |-> bRequest, wValue |-> wValue, wIndex |-> wIndex,
     offset |-> offset, size |-> size, trailer |-> trailer]

\* ------------------------------------------------------------ upload engine
\* the locals of irecovery_send_buffer, and what it has done so far: frames
\* are the adapter calls other than GETSTATUS, polls the GETSTATUS calls
\* since the last frame that belong to the packet or to the finish
\* notification in progress, acked whether a poll since the last frame
\* reported status 5,
\* progress the counts passed to the progress callback, cancelled whether
\* the callback has returned non-zero, calls the calls made so far, clean
\* whether every step so far found the client usable and had no transfer
\* or allocation fail.  The other operations keep their arguments in it:
\* op the operation, command and b_request those of a command, buffer and
\* mode the int* of irecovery_get_mode and the int it points to, serial_str
\* the string fetched by irecovery_finalize_client and tokens the tokens
\* the device put in it, script what the device and the callback answer in
\* the calls, first what the first of two such calls did
NoTransfer ==
    [calls |-> 0, buffer |-> NULL, length |-> 0, options |-> 0, recovery_mode |-> FALSE,
     packet_size |-> 0, last |-> 0, packets |-> 0, i |-> 0, size |-> 0, bytes |-> 0,
     count |-> 0, status |-> 0, retry |-> 0, error |-> 0, h1 |-> <<255, 255, 255, 255>>,
     trailer |-> << >>, state |-> 0, request |-> 0, op |-> "", command |-> << >>, b_request |-> 0,
     mode |-> NULL, serial_str |-> << >>, tokens |-> << >>, script |-> << >>,
     first |-> << >>,
     frames |-> << >>, polls |-> 0, acked |-> FALSE, progress |-> << >>,
     cancelled |-> FALSE, clean |-> TRUE]

\* lines 1260-1273: recovery_mode, packet_size, last, packets
SendBufferLocals(x, c) ==
    LET recovery_mode == c.mode # IRECOVERY_K_DFU_MODE /\ c.mode # IRECOVERY_K_WTF_MODE
        packet_size   == IF recovery_mode THEN 32768 ELSE 2048
        rest          == x.length % packet_size
    IN  [x EXCEPT !.recovery_mode = recovery_mode,
                  !.packet_size = packet_size,
                  !.last = IF rest # 0 THEN rest ELSE packet_size,
                  !.packets = (x.length \div packet_size) + (IF rest # 0 THEN 1 ELSE 0)]

\* the adapter is called with frame f when the client is usable
LogFrame(x, c, r, f) ==
    IF irecovery_client_is_usable(c, r)
    THEN [x EXCEPT !.frames = Append(@, f), !.polls = 0, !.acked = FALSE]
    ELSE x

\* the adapter is called for a GETSTATUS poll; g is what irecovery_get_status
\* returns
LogPoll(x, c, r, g) ==
    IF irecovery_client_is_usable(c, r)
    THEN [x EXCEPT !.polls = @ + 1,
                   !.acked = @ \/ (g.ret = IRECOVERY_E_SUCCESS /\ g.status = 5),
                   !.status = g.status]
    ELSE [x EXCEPT !.status = g.status]

\* lines 1371-1383: count += size, the progress callback (cb is its return
\* value), and the loop's i++; retry goes out of scope
PacketDone(x, c, cb) ==
    LET count == x.count + x.size
    IN  IF c.progress_callback # NULL
        THEN [x EXCEPT !.count = count, !.i = @ + 1, !.retry = 0, !.polls = 0,
                       !.progress = Append(@, count),
                       !.cancelled = @ \/ cb # 0]
        ELSE [x EXCEPT !.count = count, !.i = @ + 1, !.retry = 0, !.polls = 0]

\* mutant of ResetDevice: the device is not reset
ResetDevice_Omitted(x, c) == [x EXCEPT !.polls = 0, !.acked = FALSE]

\* usb_ResetDevice(client->handle) at the end of the finish notification
ResetDevice(x, c) ==
    [x EXCEPT !.frames = Append(@, Frame(c, "reset", 0, 0, 0, 0, 0, 0, << >>)),
              !.polls = 0, !.acked = FALSE]

\* mutant of HasOption: any higher bit counts as the bit
HasOption_AnyHigherBit(options, bit) == options \div bit # 0

\* options & IRECOVERY_SEND_OPT_DFU_NOTIFY_FINISH, & .._FORCE_ZLP
HasOption(options, bit) == (options \div bit) % 2 = 1


\* ------------------------------------------------------------------ steps
Policies ==
    {IRECOVERY_CLIENT_DEVICE_POLICY_ACCEPT_ALL,
     IRECOVERY_CLIENT_DEVICE_POLICY_ACCEPT_ONLY_WHEN_NO_CURRENT_CONNECTION,
     IRECOVERY_CLIENT_DEVICE_POLICY_ONE_CONNECTION_LIMIT}

\* the record of a step: what ran, at which position, with which event or
\* adapter outcome
Step(kind, op, at, ev, outcome) ==
    [kind |-> kind, op |-> op, at |-> at, ev |-> ev, outcome |-> outcome]

\* irecovery_client_new: calloc, then the static zone is set; log_fp 1 is
\* the logger function of the application
NewClient(policy, ecid) ==
    [connection_policy |-> policy, log_fp |-> 1, ecid_restriction |-> ecid,
     num_connections |-> 0,
     handle |-> NULL, device_descriptor |-> ZeroDescriptor, device_info |-> ZeroDeviceInfo,
     mode |-> 0, finalized |-> 0, progress_callback |-> NULL]

Init ==
    /\ client \in {NewClient(p, e) : p \in Policies, e \in EcidRestrictions}
    /\ role \in {USB_ROLE_HOST, USB_ROLE_DEVICE}
    /\ pc = "idle"
    /\ nev = 0
    /\ desc_index = 0
    /\ ret = IRECOVERY_E_SUCCESS
    /\ last = Step("return", "irecovery_client_new", "idle", NoEvent, "ok")
    /\ xfer = NoTransfer

\* an API call returns code with the client as c
Return(op, c, code, outcome) ==
    /\ client' = c
    /\ ret' = code
    /\ last' = Step("return", op, pc, NoEvent, outcome)
    /\ pc' = "idle"
    /\ nev' = 0
    /\ desc_index' = 0
    /\ UNCHANGED <<role, xfer>>

\* an API call goes on to its next usb_HandleEvents() with the client as c
Goto(op, c, next, index, outcome) ==
    /\ client' = c
    /\ last' = Step("step", op, pc, NoEvent, outcome)
    /\ pc' = next
    /\ nev' = 0
    /\ desc_index' = index
    /\ UNCHANGED <<role, ret, xfer>>

\* the positions of the command and device-request operations that start
\* with usb_HandleEvents()
CallPositions ==
    {"scb_entry", "scr_entry", "scr_transfer", "ft_entry", "ft_transfer", "ft_status",
     "ft_reset", "rs_entry", "rc_entry", "rc_transfer", "gm_entry"}

\* the positions of irecovery_send_buffer; at "sb_loop", the head of its
\* packet loop, the code does not call usb_HandleEvents()
UploadPositions ==
    {"sb_entry", "sb_init", "sb_clear", "sb_loop", "sb_packet", "sb_trailer", "sb_status",
     "sb_retry", "sb_zlp", "sb_finish", "sb_finish_status", "sb_finish_zlp"}

\* the events usb_HandleEvents() may dispatch at position at: MaxEvents in
\* one invocation, in an upload or another device operation MaxUploadEvents
\* over its invocations
EventBudget(at) ==
    IF at \in {"sb_loop", "sc_entry"} THEN 0
    ELSE IF at \in UploadPositions \cup CallPositions THEN MaxUploadEvents
    ELSE MaxEvents

\* usb_HandleEvents() dispatches one event to usb_event_handler
UsbEvent ==
    /\ pc # "idle"
    /\ nev < EventBudget(pc)
    /\ \E e \in Events :
         /\ e.type = "USB_ROLE_CHANGED_EVENT" => e.role # role
         /\ role' = IF e.type = "USB_ROLE_CHANGED_EVENT" THEN e.role ELSE role
         /\ client' = usb_event_handler(client, role, e)
         /\ last' = Step("event", "usb_event_handler", pc, e, "ok")
    /\ nev' = nev + 1
    /\ UNCHANGED <<pc, desc_index, ret, xfer>>

\* irecovery_poll_for_device is called
PollForDevice ==
    /\ pc = "idle"
    /\ pc' = "poll"
    /\ nev' = 0
    /\ last' = Step("call", "irecovery_poll_for_device", pc, NoEvent, "ok")
    /\ UNCHANGED <<client, role, desc_index, ret, xfer>>

\* after the usb_HandleEvents() of irecovery_poll_for_device:
\* irecovery_finalize_client up to its first descriptor fetch
FinalizeClient ==
    /\ pc = "poll"
    /\ IF FinalizeEntry(client, role) # 1
       THEN Return("irecovery_poll_for_device", client, FinalizeEntry(client, role), "ok")
       ELSE Goto("irecovery_poll_for_device", client, "serial",
                 client.device_descriptor.iSerialNumber, "ok")

\* the serial string fetch, the parse and the ECID check
FinalizeSerial ==
    /\ pc = "serial"
    /\ \E outcome \in FetchOutcomes :
         LET res == irecovery_get_string_descriptor_ascii(client, role, desc_index, outcome)
             c1  == irecovery_load_device_info_from_iboot_string(client, res.buf)
         IN  IF res.ret < 0
             THEN Return("irecovery_poll_for_device", client, res.ret, outcome)
             ELSE IF EcidMismatch(c1)
             THEN Return("irecovery_poll_for_device", [c1 EXCEPT !.finalized = -1],
                         IRECOVERY_E_ECID_MISMATCH, outcome)
             ELSE Goto("irecovery_poll_for_device", c1, "setcfg", 0, outcome)

\* mutant of AfterSetConfiguration: a failed configuration does not block
AfterSetConfiguration_NoBlock(c, error) == c

\* the client after irecovery_usb_set_configuration returned error
AfterSetConfiguration(c, error) ==
    IF error # IRECOVERY_E_SUCCESS THEN [c EXCEPT !.finalized = -1] ELSE c

\* the client when irecovery_finalize_client reaches its end
MarkFinalized(c) == [c EXCEPT !.finalized = 1]

\* irecovery_usb_set_configuration(client, 1) and what follows it
FinalizeSetConfiguration ==
    /\ pc = "setcfg"
    /\ \E outcome \in SetConfigurationOutcomes :
         LET error == irecovery_usb_set_configuration(client, role, outcome)
             c1    == AfterSetConfiguration(client, error)
         IN  IF error # IRECOVERY_E_SUCCESS
             THEN Return("irecovery_poll_for_device", c1, error, outcome)
             ELSE IF CopyNonceProceeds(c1, role, "ap_nonce")
             THEN Goto("irecovery_poll_for_device", c1, "nonce_ap", 1, outcome)
             ELSE IF CopyNonceProceeds(c1, role, "sep_nonce")
             THEN Goto("irecovery_poll_for_device", c1, "nonce_sep", 1, outcome)
             ELSE Return("irecovery_poll_for_device", MarkFinalized(c1), error, outcome)

\* irecovery_copy_nonce_with_tag(client, "NONC", ...) and what follows it
FinalizeNonceAp ==
    /\ pc = "nonce_ap"
    /\ \E outcome \in FetchOutcomes :
         LET res == irecovery_get_string_descriptor_ascii(client, role, desc_index, outcome)
             c1  == StoreNonce(client, "ap_nonce", "ap_nonce_size", <<"N", "O", "N", "C">>, res)
         IN  IF CopyNonceProceeds(c1, role, "sep_nonce")
             THEN Goto("irecovery_poll_for_device", c1, "nonce_sep", 1, outcome)
             ELSE Return("irecovery_poll_for_device", MarkFinalized(c1),
                         IRECOVERY_E_SUCCESS, outcome)

\* irecovery_copy_nonce_with_tag(client, "SNON", ...), then finalized = 1
FinalizeNonceSep ==
    /\ pc = "nonce_sep"
    /\ \E outcome \in FetchOutcomes :
         LET res == irecovery_get_string_descriptor_ascii(client, role, desc_index, outcome)
             c1  == StoreNonce(client, "sep_nonce", "sep_nonce_size", <<"S", "N", "O", "N">>, res)
         IN  Return("irecovery_poll_for_device", MarkFinalized(c1), IRECOVERY_E_SUCCESS, outcome)

\* the public irecovery_client_clear_device_zone, called by the application
ClearDeviceZone ==
    /\ pc = "idle"
    /\ client' = irecovery_client_clear_device_zone(client)
    /\ last' = Step("return", "irecovery_client_clear_device_zone", pc, NoEvent, "ok")
    /\ UNCHANGED <<role, pc, nev, desc_index, ret, xfer>>

\* irecovery_event_subscribe(client, type, callback); callback 1 is a
\* function of the application
EventSubscribe ==
    /\ pc = "idle"
    /\ \E type \in {IRECOVERY_PROGRESS, 2}, callback \in {NULL, 1} :
         IF ~irecovery_client_is_usable(client, role)
         THEN Return("irecovery_event_subscribe", client, IRECOVERY_E_NO_DEVICE, "ok")
         ELSE IF callback = NULL
         THEN Return("irecovery_event_subscribe", client, IRECOVERY_E_BAD_PTR, "ok")
         ELSE IF type # IRECOVERY_PROGRESS
         THEN Return("irecovery_event_subscribe", client, IRECOVERY_E_UNKNOWN_EVENT_TYPE, "ok")
         ELSE Return("irecovery_event_subscribe",
                     [client EXCEPT !.progress_callback = callback], IRECOVERY_E_SUCCESS, "ok")

\* irecovery_event_unsubscribe(client, type)
EventUnsubscribe ==
    /\ pc = "idle"
    /\ \E type \in {IRECOVERY_PROGRESS, 2} :
         IF ~irecovery_client_is_usable(client, role)
         THEN Return("irecovery_event_unsubscribe", client, IRECOVERY_E_NO_DEVICE, "ok")
         ELSE IF type # IRECOVERY_PROGRESS
         THEN Return("irecovery_event_unsubscribe", client, IRECOVERY_E_UNKNOWN_EVENT_TYPE, "ok")
         ELSE Return("irecovery_event_unsubscribe",
                     [client EXCEPT !.progress_callback = NULL], IRECOVERY_E_SUCCESS, "ok")

\* ------------------------------------------------------ upload engine steps
\* the step that ends with locals x met the client usable or not, and had
\* its transfer or allocation succeed or not
StepOutcome(x, outcome) ==
    [x EXCEPT !.clean = @ /\ outcome = "ok" /\ irecovery_client_is_usable(client, role)]

\* irecovery_send_buffer returns code with its locals as x
UploadReturn(x, code, outcome) ==
    /\ xfer' = StepOutcome(x, outcome)
    /\ ret' = code
    /\ last' = Step("return", "irecovery_send_buffer", pc, NoEvent, outcome)
    /\ pc' = "idle"
    /\ nev' = 0
    /\ UNCHANGED <<client, role, desc_index>>

\* irecovery_send_buffer goes on to position next with its locals as x
UploadGoto(x, next, outcome) ==
    /\ xfer' = StepOutcome(x, outcome)
    /\ last' = Step("step", "irecovery_send_buffer", pc, NoEvent, outcome)
    /\ pc' = next
    /\ UNCHANGED <<client, role, nev, desc_index, ret>>

\* payload lengths: up to MaxPackets packets of the client's framing, at the
\* packet boundary, one past it, and around the room left for the trailer
UploadLengths(c) ==
    LET packet_size == SendBufferLocals(NoTransfer, c).packet_size
    IN  {p * packet_size + d : p \in 0..(MaxPackets - 1), d \in {0, 1}}
        \cup {packet_size - 16, packet_size - 15, MaxPackets * packet_size}

SendOptions ==
    {IRECOVERY_SEND_OPT_NONE, IRECOVERY_SEND_OPT_DFU_NOTIFY_FINISH,
     IRECOVERY_SEND_OPT_DFU_NOTIFY_FINISH + IRECOVERY_SEND_OPT_DFU_FORCE_ZLP}

\* return values of the application's progress callback
CallbackReturns == {0, 1}

\* irecovery_send_buffer(client, buffer, length, options) is called
SendBuffer ==
    /\ pc = "idle"
    /\ xfer.calls < MaxUploads
    /\ \E buffer \in {NULL, 1}, length \in UploadLengths(client), options \in SendOptions :
         xfer' = [NoTransfer EXCEPT !.calls = xfer.calls + 1, !.buffer = buffer,
                                    !.length = length, !.options = options]
    /\ pc' = "sb_entry"
    /\ nev' = 0
    /\ last' = Step("call", "irecovery_send_buffer", pc, NoEvent, "ok")
    /\ UNCHANGED <<client, role, desc_index, ret>>

\* lines 1253-1273: the argument tests and the packet arithmetic
SendBufferEntry ==
    /\ pc = "sb_entry"
    /\ IF ~irecovery_client_is_usable(client, role)
       THEN UploadReturn(xfer, IRECOVERY_E_NO_DEVICE, "ok")
       ELSE IF xfer.buffer = NULL
       THEN UploadReturn(xfer, IRECOVERY_E_BAD_PTR, "ok")
       ELSE UploadGoto(SendBufferLocals(xfer, client), "sb_init", "ok")

\* mutant of StateRequest: ABORT also answers dfuERROR
StateRequest_AlwaysAbort(state) == 6

\* the switch of lines 1285-1299: CLRSTATUS (4) for state 10, ABORT (6) for
\* any other state than 2
StateRequest(state) == IF state = 10 THEN 4 ELSE 6

\* lines 1276-1302: the transfer that initiates the upload
SendBufferInitiate ==
    /\ pc = "sb_init"
    /\ \E outcome \in TransferOutcomes, state \in DfuStates :
         IF xfer.recovery_mode
         THEN LET error == irecovery_usb_control_transfer(client, role, 0, outcome)
                  x1    == LogFrame(xfer, client, role,
                                    Frame(client, "control", 65, 0, 0, 0, 0, 0, << >>))
              IN  IF error # IRECOVERY_E_SUCCESS
                  THEN UploadReturn([x1 EXCEPT !.error = error], error, outcome)
                  ELSE UploadGoto([x1 EXCEPT !.error = error], "sb_loop", outcome)
         ELSE LET got == irecovery_usb_control_transfer(client, role, 1, outcome)
                  x1  == LogFrame(xfer, client, role,
                                  Frame(client, "control", 161, 5, 0, 0, 0, 0, << >>))
              IN  IF got # 1
                  THEN UploadReturn(x1, IRECOVERY_E_USB_UPLOAD_FAILED, outcome)
                  ELSE IF state = 2
                  THEN UploadGoto([x1 EXCEPT !.state = state, !.error = IRECOVERY_E_SUCCESS],
                                  "sb_loop", outcome)
                  ELSE UploadGoto([x1 EXCEPT !.state = state, !.request = StateRequest(state)],
                                  "sb_clear", outcome)

\* lines 1289-1302: CLRSTATUS (request 4) or ABORT (request 6), then failure
SendBufferClearState ==
    /\ pc = "sb_clear"
    /\ \E outcome \in TransferOutcomes :
         LET x1 == LogFrame(xfer, client, role,
                            Frame(client, "control", 33, xfer.request, 0, 0, 0, 0, << >>))
         IN  UploadReturn([x1 EXCEPT !.error = IRECOVERY_E_USB_UPLOAD_FAILED],
                          IRECOVERY_E_USB_UPLOAD_FAILED, outcome)

\* the room test with >= for >
TrailerFits_NoRoomWhenExact(x, size) == ~(size + 16 >= x.packet_size)

\* the last packet of a DFU/WTF upload leaves room for the trailer
TrailerFits(x, size) == ~(size + 16 > x.packet_size)

\* lines 1307-1345, up to the transfer of packet i: the size of the packet,
\* the CRC over its bytes and, when the trailer goes with the last packet,
\* newbuf; after the loop, lines 1385-1407 up to their first transfer
SendBufferLoop ==
    /\ pc = "sb_loop"
    /\ IF xfer.i < xfer.packets
       THEN LET size == IF xfer.i + 1 < xfer.packets THEN xfer.packet_size ELSE xfer.last
            IN  IF xfer.recovery_mode
                THEN UploadGoto([xfer EXCEPT !.size = size], "sb_packet", "ok")
                ELSE \E h1 \in {CrcOverBuffer(xfer.h1, xfer.i * xfer.packet_size,
                                               xfer.i * xfer.packet_size + size - 1)} :
                     IF xfer.i + 1 = xfer.packets /\ TrailerFits(xfer, size)
                     THEN \E alloc \in {"ok", "nomem"}, h2 \in {CrcOverXbuf(h1, 1)} :
                            IF alloc = "nomem"
                            THEN UploadReturn([xfer EXCEPT !.size = size, !.h1 = h2],
                                              IRECOVERY_E_NO_MEMORY, alloc)
                            ELSE UploadGoto([xfer EXCEPT !.size = size + 16, !.h1 = h2,
                                                         !.trailer = DfuTrailer(h2)],
                                            "sb_packet", alloc)
                     ELSE UploadGoto([xfer EXCEPT !.size = size, !.h1 = h1], "sb_packet", "ok")
       ELSE IF xfer.recovery_mode /\ xfer.length % 512 = 0
       THEN UploadGoto(xfer, "sb_zlp", "ok")
       ELSE IF HasOption(xfer.options, IRECOVERY_SEND_OPT_DFU_NOTIFY_FINISH)
               /\ ~xfer.recovery_mode
       THEN UploadGoto(xfer, "sb_finish", "ok")
       ELSE UploadReturn(xfer, IRECOVERY_E_SUCCESS, "ok")

\* the packet number goes in wIndex and wValue is 0
DownloadFrame_PacketInIndex(x, c, size, trailer) ==
    Frame(c, "control", 33, 1, 0, x.i, x.i * x.packet_size, size, trailer)

\* every download sends from the start of the buffer
DownloadFrame_FromBufferStart(x, c, size, trailer) ==
    Frame(c, "control", 33, 1, x.i, 0, 0, size, trailer)

\* the download transfer of packet i in DFU/WTF mode, for its payload bytes
\* and the trailer that goes with them
DownloadFrame(x, c, size, trailer) ==
    Frame(c, "control", 33, 1, x.i, 0, x.i * x.packet_size, size, trailer)

\* lines 1311-1357: the transfer of packet i and the tests that follow it
SendBufferPacket ==
    /\ pc = "sb_packet"
    /\ \E outcome \in TransferOutcomes, alloc \in {"ok", "nomem"}, cb \in CallbackReturns :
         IF xfer.recovery_mode
         THEN LET res == irecovery_usb_bulk_transfer(client, role, xfer.size, outcome,
                                                     xfer.bytes)
                  x1  == [LogFrame(xfer, client, role,
                                   Frame(client, "bulk", 0, 0, 0, 4,
                                         xfer.i * xfer.packet_size, xfer.size, << >>))
                            EXCEPT !.error = res.ret, !.bytes = res.transferred]
              IN  IF x1.bytes # x1.size
                  THEN UploadReturn(x1, IRECOVERY_E_USB_UPLOAD_FAILED, outcome)
                  ELSE IF x1.error # IRECOVERY_E_SUCCESS
                  THEN UploadReturn(x1, x1.error, outcome)
                  ELSE UploadGoto(PacketDone(x1, client, cb), "sb_loop", outcome)
         ELSE IF xfer.i + 1 = xfer.packets /\ xfer.trailer = << >>
         THEN \* the last chunk has no room for the trailer: it goes alone
              LET got == irecovery_usb_control_transfer(client, role, xfer.size, outcome)
                  x1  == [LogFrame(xfer, client, role,
                                   DownloadFrame(xfer, client, xfer.size, << >>))
                            EXCEPT !.bytes = got]
                  h1  == CrcOverXbuf(x1.h1, 1)
              IN  IF got # xfer.size
                  THEN UploadReturn(x1, IRECOVERY_E_USB_UPLOAD_FAILED, outcome)
                  ELSE IF alloc = "nomem"
                  THEN UploadReturn([x1 EXCEPT !.count = @ + xfer.size, !.size = 0, !.h1 = h1],
                                    IRECOVERY_E_NO_MEMORY, alloc)
                  ELSE UploadGoto([x1 EXCEPT !.count = @ + xfer.size, !.size = 16, !.h1 = h1,
                                             !.trailer = DfuTrailer(h1)],
                                  "sb_trailer", outcome)
         ELSE LET got == irecovery_usb_control_transfer(client, role, xfer.size, outcome)
                  x1  == [LogFrame(xfer, client, role,
                                   DownloadFrame(xfer, client, xfer.size - Len(xfer.trailer),
                                                 xfer.trailer))
                            EXCEPT !.bytes = got]
              IN  IF got # xfer.size
                  THEN UploadReturn(x1, IRECOVERY_E_USB_UPLOAD_FAILED, outcome)
                  ELSE UploadGoto(x1, "sb_status", outcome)

\* line 1346 for a trailer that goes alone: newbuf holds the 16 bytes only
SendBufferTrailer ==
    /\ pc = "sb_trailer"
    /\ \E outcome \in TransferOutcomes :
         LET got == irecovery_usb_control_transfer(client, role, xfer.size, outcome)
             x1  == [LogFrame(xfer, client, role, DownloadFrame(xfer, client, 0, xfer.trailer))
                       EXCEPT !.bytes = got]
         IN  IF got # xfer.size
             THEN UploadReturn(x1, IRECOVERY_E_USB_UPLOAD_FAILED, outcome)
             ELSE UploadGoto(x1, "sb_status", outcome)

\* lines 1355-1361: the status poll after a DFU/WTF packet
SendBufferStatus ==
    /\ pc = "sb_status"
    /\ \E outcome \in StatusOutcomes, state \in DfuStatusStates, cb \in CallbackReturns :
         LET g  == irecovery_get_status(client, role, outcome, state)
             x1 == [LogPoll(xfer, client, role, g) EXCEPT !.error = g.ret]
         IN  IF g.ret # IRECOVERY_E_SUCCESS
             THEN UploadReturn(x1, g.ret, outcome)
             ELSE IF g.status # 5
             THEN UploadGoto([x1 EXCEPT !.retry = 0], "sb_retry", outcome)
             ELSE UploadGoto(PacketDone(x1, client, cb), "sb_loop", outcome)

\* the turns of while (retry++ < 20)
RetryLimit_OneMore == 20 + 1

RetryLimit == 20

\* lines 1362-1368: one turn of while (retry++ < 20)
SendBufferRetry ==
    /\ pc = "sb_retry"
    /\ xfer.retry < RetryLimit
    /\ \E outcome \in StatusOutcomes, state \in DfuStatusStates, cb \in CallbackReturns :
         LET g  == irecovery_get_status(client, role, outcome, state)
             x1 == [LogPoll(xfer, client, role, g) EXCEPT !.retry = @ + 1]
         IN  IF g.status = 5
             THEN UploadGoto(PacketDone(x1, client, cb), "sb_loop", outcome)
             ELSE IF x1.retry < RetryLimit
             THEN UploadGoto(x1, "sb_retry", outcome)
             ELSE UploadReturn(x1, IRECOVERY_E_USB_UPLOAD_FAILED, outcome)

\* lines 1385-1389 and 1407: the zero-length bulk transfer of recovery mode
SendBufferZlp ==
    /\ pc = "sb_zlp"
    /\ \E outcome \in TransferOutcomes :
         LET x1 == [LogFrame(xfer, client, role,
                             Frame(client, "bulk", 0, 0, 0, 4, 0, 0, << >>))
                      EXCEPT !.bytes = irecovery_usb_bulk_transfer(client, role, 0, outcome,
                                                                   0).transferred]
         IN  UploadReturn(x1, IRECOVERY_E_SUCCESS, outcome)

\* line 1392: the zero-length download that notifies the end
SendBufferFinish ==
    /\ pc = "sb_finish"
    /\ \E outcome \in TransferOutcomes :
         UploadGoto([LogFrame(xfer, client, role,
                              Frame(client, "control", 33, 1, xfer.packets, 0, 0, 0, << >>))
                       EXCEPT !.retry = 0],
                    "sb_finish_status", outcome)

\* lines 1394-1405: one of the two status polls of the finish notification;
\* retry counts them
SendBufferFinishStatus ==
    /\ pc = "sb_finish_status"
    /\ \E outcome \in StatusOutcomes, state \in DfuStatusStates :
         LET g  == irecovery_get_status(client, role, outcome, state)
             x1 == [LogPoll(xfer, client, role, g) EXCEPT !.error = g.ret, !.retry = @ + 1]
         IN  IF g.ret # IRECOVERY_E_SUCCESS
             THEN UploadReturn(x1, g.ret, outcome)
             ELSE IF x1.retry < 2
             THEN UploadGoto(x1, "sb_finish_status", outcome)
             ELSE IF HasOption(xfer.options, IRECOVERY_SEND_OPT_DFU_FORCE_ZLP)
             THEN UploadGoto(x1, "sb_finish_zlp", outcome)
             ELSE UploadReturn(ResetDevice(x1, client), IRECOVERY_E_SUCCESS, outcome)

\* lines 1399-1407: the pseudo ZLP, the device reset and the return
SendBufferFinishZlp ==
    /\ pc = "sb_finish_zlp"
    /\ \E outcome \in TransferOutcomes :
         UploadReturn(ResetDevice(LogFrame(xfer, client, role,
                                           Frame(client, "control", 33, 0, 0, 0, 0, 0, << >>)),
                                  client),
                      IRECOVERY_E_SUCCESS, outcome)


\* ------------------------------------------ commands and device requests
\* A command is the sequence of its characters; the argument command is
\* << >> for NULL and << cmd >> for a pointer to the string cmd.
\* an operation returns code with its locals as x
CallReturn(x, code, outcome) ==
    /\ xfer' = StepOutcome(x, outcome)
    /\ ret' = code
    /\ last' = Step("return", x.op, pc, NoEvent, outcome)
    /\ pc' = "idle"
    /\ nev' = 0
    /\ UNCHANGED <<client, role, desc_index>>

\* an operation goes on to position next with its locals as x
CallGoto(x, next, outcome) ==
    /\ xfer' = StepOutcome(x, outcome)
    /\ last' = Step("step", x.op, pc, NoEvent, outcome)
    /\ pc' = next
    /\ UNCHANGED <<client, role, nev, desc_index, ret>>

\* the application, with no call in progress, calls operation op, which
\* starts at position entry with the arguments of x
DeviceCall(op, entry, x) ==
    /\ xfer.calls < MaxCalls
    /\ xfer' = [x EXCEPT !.calls = xfer.calls + 1, !.op = op]
    /\ pc' = entry
    /\ nev' = 0
    /\ last' = Step("call", op, pc, NoEvent, "ok")
    /\ UNCHANGED <<client, role, desc_index, ret>>

\* a string of n letters
Padded(n) == [k \in 1..n |-> "a"]

\* the commands irecovery_is_breq_command names
BreqCommands ==
    {<<"g", "o">>, <<"b", "o", "o", "t", "x">>, <<"r", "e", "b", "o", "o", "t">>,
     <<"m", "e", "m", "b", "o", "o", "t">>}

\* the commands the application sends: the four above, the empty string,
\* other commands, and commands of 255 and of 256 characters
Commands ==
    BreqCommands
    \cup {<< >>, <<"g">>, <<"g", "o", "x">>, <<"p", "r", "i", "n", "t", "e", "n", "v">>,
          Padded(255), Padded(256)}

\* irecovery_is_breq_command with its strcmp on one name only
irecovery_is_breq_command_GoOnly(cmd) == cmd = <<"g", "o">>

\* irecovery_is_breq_command: !strcmp(cmd, ..) for the four names
irecovery_is_breq_command(cmd) ==
    \/ cmd = <<"g", "o">>
    \/ cmd = <<"b", "o", "o", "t", "x">>
    \/ cmd = <<"r", "e", "b", "o", "o", "t">>
    \/ cmd = <<"m", "e", "m", "b", "o", "o", "t">>

\* client->mode is one of the four recovery modes
InRecoveryMode(c) ==
    c.mode \in {IRECOVERY_K_RECOVERY_MODE_1, IRECOVERY_K_RECOVERY_MODE_2,
                IRECOVERY_K_RECOVERY_MODE_3, IRECOVERY_K_RECOVERY_MODE_4}

\* the longest command, with >= for > in the length test
CommandFits_Upto256(command) == ~(Len(command) > 256)

\* if (length >= 256) return IRECOVERY_E_COMMAND_TOO_LONG
CommandFits(command) == ~(Len(command) >= 256)

\* irecovery_send_command(client, command) is called
SendCommand ==
    /\ pc = "idle"
    /\ \E command \in {<< >>} \cup {<< cmd >> : cmd \in Commands} :
         DeviceCall("irecovery_send_command", "sc_entry",
                    [NoTransfer EXCEPT !.command = command])

\* lines 1244-1249: the NULL test and the classification of the command
SendCommandEntry ==
    /\ pc = "sc_entry"
    /\ IF xfer.command = << >>
       THEN CallReturn(xfer, IRECOVERY_E_BAD_PTR, "ok")
       ELSE CallGoto([xfer EXCEPT !.b_request =
                          IF irecovery_is_breq_command(xfer.command[1]) THEN 1 ELSE 0],
                     "scb_entry", "ok")

\* irecovery_send_command_breq(client, command, b_request) is called
SendCommandBreq ==
    /\ pc = "idle"
    /\ \E command \in {<< >>, << <<"g", "o">> >>, << <<"g", "o", "x">> >>},
          b_request \in {0, 1, 2} :
         DeviceCall("irecovery_send_command_breq", "scb_entry",
                    [NoTransfer EXCEPT !.command = command, !.b_request = b_request])

\* the tests at the head of irecovery_send_command_breq and of
\* irecovery_send_command_raw: the code they return, or success
CommandTests(x, c, r) ==
    IF ~irecovery_client_is_usable(c, r) THEN IRECOVERY_E_NO_DEVICE
    ELSE IF x.command = << >> THEN IRECOVERY_E_BAD_PTR
    ELSE IF ~InRecoveryMode(c) THEN IRECOVERY_E_SERVICE_NOT_AVAILABLE
    ELSE IF ~CommandFits(x.command[1]) THEN IRECOVERY_E_COMMAND_TOO_LONG
    ELSE IRECOVERY_E_SUCCESS

\* lines 1213-1231: irecovery_send_command_breq up to its call of
\* irecovery_send_command_raw
SendCommandBreqEntry ==
    /\ pc = "scb_entry"
    /\ IF CommandTests(xfer, client, role) # IRECOVERY_E_SUCCESS
       THEN CallReturn(xfer, CommandTests(xfer, client, role), "ok")
       ELSE CallGoto(xfer, "scr_entry", "ok")

\* lines 1190-1202 and 1205-1207: irecovery_send_command_raw up to its
\* transfer
SendCommandRawEntry ==
    /\ pc = "scr_entry"
    /\ IF CommandTests(xfer, client, role) # IRECOVERY_E_SUCCESS
       THEN CallReturn(xfer, CommandTests(xfer, client, role), "ok")
       ELSE IF Len(xfer.command[1]) > 0
       THEN CallGoto(xfer, "scr_transfer", "ok")
       ELSE CallReturn(xfer, IRECOVERY_E_NO_COMMAND, "ok")

\* lines 1203-1204 and 1209: the control transfer of the command and of its
\* terminator
SendCommandTransfer ==
    /\ pc = "scr_transfer"
    /\ \E outcome \in TransferOutcomes :
         LET w_length == Len(xfer.command[1]) + 1
             got == irecovery_usb_control_transfer(client, role, w_length, outcome)
             x1  == LogFrame(xfer, client, role,
                             Frame(client, "control", 64, xfer.b_request, 0, 0, 0,
                                   w_length, << >>))
         IN  IF got < 0
             THEN CallReturn([x1 EXCEPT !.error = got], got, outcome)
             ELSE CallReturn([x1 EXCEPT !.error = got], IRECOVERY_E_SUCCESS, outcome)

\* irecovery_finish_transfer(client) is called
FinishTransfer ==
    /\ pc = "idle"
    /\ DeviceCall("irecovery_finish_transfer", "ft_entry", NoTransfer)

\* line 1102
FinishTransferEntry ==
    /\ pc = "ft_entry"
    /\ IF ~irecovery_client_is_usable(client, role)
       THEN CallReturn(xfer, IRECOVERY_E_NO_DEVICE, "ok")
       ELSE CallGoto(xfer, "ft_transfer", "ok")

\* line 1104: the zero-length download
FinishTransferDownload ==
    /\ pc = "ft_transfer"
    /\ \E outcome \in TransferOutcomes :
         CallGoto([LogFrame(xfer, client, role,
                            Frame(client, "control", 33, 1, 0, 0, 0, 0, << >>))
                     EXCEPT !.i = 0],
                  "ft_status", outcome)

\* lines 1106-1109: one of the three status polls
FinishTransferStatus ==
    /\ pc = "ft_status"
    /\ \E outcome \in StatusOutcomes, state \in DfuStatusStates :
         LET g  == irecovery_get_status(client, role, outcome, state)
             x1 == [LogPoll(xfer, client, role, g) EXCEPT !.i = @ + 1]
         IN  IF x1.i < 3
             THEN CallGoto(x1, "ft_status", outcome)
             ELSE CallGoto(x1, "ft_reset", outcome)

\* outcomes of usb_ResetDevice
ResetOutcomes == {"ok", "fail"}

\* irecovery_reset, after the usb_HandleEvents() of its usability test: its
\* return value and the locals with the reset request it made
irecovery_reset(x, c, r, outcome) ==
    IF ~irecovery_client_is_usable(c, r)
    THEN [ret |-> IRECOVERY_E_NO_DEVICE, x |-> x]
    ELSE [ret |-> IF outcome = "ok" THEN IRECOVERY_E_SUCCESS
                  ELSE IRECOVERY_E_USB_RESET_FAILED,
          x   |-> ResetDevice(x, c)]

\* lines 1111-1113: irecovery_reset(client), whose result is dropped
FinishTransferReset ==
    /\ pc = "ft_reset"
    /\ \E outcome \in ResetOutcomes :
         CallReturn(irecovery_reset(xfer, client, role, outcome).x,
                    IRECOVERY_E_SUCCESS, outcome)

\* irecovery_reset(client) is called
Reset ==
    /\ pc = "idle"
    /\ DeviceCall("irecovery_reset", "rs_entry", NoTransfer)

\* lines 1034-1042
ResetEntry ==
    /\ pc = "rs_entry"
    /\ \E outcome \in ResetOutcomes :
         CallReturn(irecovery_reset(xfer, client, role, outcome).x,
                    irecovery_reset(xfer, client, role, outcome).ret, outcome)

\* irecovery_reset_counters(client) is called
ResetCounters ==
    /\ pc = "idle"
    /\ DeviceCall("irecovery_reset_counters", "rc_entry", NoTransfer)

\* lines 1071-1073 and 1078
ResetCountersEntry ==
    /\ pc = "rc_entry"
    /\ IF ~irecovery_client_is_usable(client, role)
       THEN CallReturn(xfer, IRECOVERY_E_NO_DEVICE, "ok")
       ELSE IF client.mode = IRECOVERY_K_DFU_MODE \/ client.mode = IRECOVERY_K_WTF_MODE
       THEN CallGoto(xfer, "rc_transfer", "ok")
       ELSE CallReturn(xfer, IRECOVERY_E_SUCCESS, "ok")

\* lines 1074-1078: CLRSTATUS
ResetCountersTransfer ==
    /\ pc = "rc_transfer"
    /\ \E outcome \in TransferOutcomes :
         LET got == irecovery_usb_control_transfer(client, role, 0, outcome)
             x1  == LogFrame(xfer, client, role,
                             Frame(client, "control", 33, 4, 0, 0, 0, 0, << >>))
         IN  IF got < 0
             THEN CallReturn(x1, got, outcome)
             ELSE CallReturn(x1, IRECOVERY_E_SUCCESS, outcome)

\* what irecovery_get_mode stores in *mode, reporting the raw mode only
ReportedMode_Raw(c) == c.mode

\* lines 1124-1128: what irecovery_get_mode stores in *mode
ReportedMode(c) ==
    IF c.device_info.pwnd # << >> THEN IRECOVERY_K_PWNDFU_MODE ELSE c.mode

\* irecovery_get_mode(client, mode) is called; buffer is the pointer mode
GetMode ==
    /\ pc = "idle"
    /\ \E mode \in {NULL, 1} :
         DeviceCall("irecovery_get_mode", "gm_entry", [NoTransfer EXCEPT !.buffer = mode])

\* lines 1117-1131
GetModeEntry ==
    /\ pc = "gm_entry"
    /\ IF xfer.buffer = NULL
       THEN CallReturn(xfer, IRECOVERY_E_BAD_PTR, "ok")
       ELSE IF ~irecovery_client_is_usable(client, role)
       THEN CallReturn(xfer, IRECOVERY_E_NO_DEVICE, "ok")
       ELSE CallReturn([xfer EXCEPT !.mode = ReportedMode(client)],
                       IRECOVERY_E_SUCCESS, "ok")


Next ==
    \/ UsbEvent
    \/ PollForDevice
    \/ FinalizeClient
    \/ FinalizeSerial
    \/ FinalizeSetConfiguration
    \/ FinalizeNonceAp
    \/ FinalizeNonceSep
    \/ ClearDeviceZone
    \/ EventSubscribe
    \/ EventUnsubscribe

Spec == Init /\ [][Next]_vars

\* a client after a device-enabled event for device h and a poll that
\* identified and finalized it
FinalizedClient(policy, h) ==
    LET c0 == Adopt(PolicyPrepare(NewClient(policy, 0)), h, TRUE)
        c1 == irecovery_load_device_info_from_iboot_string(c0, IdentityString(h))
        c2 == StoreNonce(c1, "ap_nonce", "ap_nonce_size", <<"N", "O", "N", "C">>,
                         [ret |-> Len(NonceString(h)), buf |-> NonceString(h)])
        c3 == StoreNonce(c2, "sep_nonce", "sep_nonce_size", <<"S", "N", "O", "N">>,
                         [ret |-> Len(NonceString(h)), buf |-> NonceString(h)])
    IN  MarkFinalized(c3)

\* the uploads start on a finalized client, with a device in DFU mode
\* (handle 1) or in recovery mode (handle 2), after the application has or
\* has not subscribed its progress callback
InitUpload ==
    /\ client \in {[FinalizedClient(p, h) EXCEPT !.progress_callback = cb] :
                     p \in Policies, h \in {1, 2}, cb \in {NULL, 1}}
    /\ role = USB_ROLE_HOST
    /\ pc = "idle"
    /\ nev = 0
    /\ desc_index = 0
    /\ ret = IRECOVERY_E_SUCCESS
    /\ last = Step("return", "irecovery_poll_for_device", "nonce_sep", NoEvent, "ok")
    /\ xfer = NoTransfer

NextUpload ==
    \/ UsbEvent
    \/ SendBuffer
    \/ SendBufferEntry
    \/ SendBufferInitiate
    \/ SendBufferClearState
    \/ SendBufferLoop
    \/ SendBufferPacket
    \/ SendBufferTrailer
    \/ SendBufferStatus
    \/ SendBufferRetry
    \/ SendBufferZlp
    \/ SendBufferFinish
    \/ SendBufferFinishStatus
    \/ SendBufferFinishZlp

SpecUpload == InitUpload /\ [][NextUpload]_vars

\* the commands and device requests start on a client without a device or
\* on a finalized client, with a device in DFU mode (handle 1) or in
\* recovery mode (handle 2)
InitCalls ==
    /\ client \in {NewClient(p, 0) : p \in Policies}
                 \cup {FinalizedClient(p, h) : p \in Policies, h \in {1, 2}}
    /\ role = USB_ROLE_HOST
    /\ pc = "idle"
    /\ nev = 0
    /\ desc_index = 0
    /\ ret = IRECOVERY_E_SUCCESS
    /\ last = Step("return", "irecovery_poll_for_device", "nonce_sep", NoEvent, "ok")
    /\ xfer = NoTransfer

NextCalls ==
    \/ UsbEvent
    \/ SendCommand
    \/ SendCommandEntry
    \/ SendCommandBreq
    \/ SendCommandBreqEntry
    \/ SendCommandRawEntry
    \/ SendCommandTransfer
    \/ FinishTransfer
    \/ FinishTransferEntry
    \/ FinishTransferDownload
    \/ FinishTransferStatus
    \/ FinishTransferReset
    \/ Reset
    \/ ResetEntry
    \/ ResetCounters
    \/ ResetCountersEntry
    \/ ResetCountersTransfer
    \/ GetMode
    \/ GetModeEntry

SpecCalls == InitCalls /\ [][NextCalls]_vars

\* ------------------------------------------------ identification inputs
\* a token of an identity string: its text, its tag, the device-info field
\* of the tag and the value the text encodes; stray tells that further ']'
\* follow the closing bracket
Token(text, tag, field, value, stray) ==
    [text |-> text, tag |-> tag, field |-> field, value |-> value, stray |-> stray]

Tokens ==
    << Token(<<"C", "P", "I", "D", ":", "8", "0", "1", "0">>, "CPID", "cpid", 32784, FALSE),
       Token(<<"C", "P", "R", "V", ":", "1", "1">>, "CPRV", "cprv", 17, FALSE),
       Token(<<"C", "P", "F", "M", ":", "0", "3">>, "CPFM", "cpfm", 3, FALSE),
       Token(<<"S", "C", "E", "P", ":", "0", "1">>, "SCEP", "scep", 1, FALSE),
       Token(<<"B", "D", "I", "D", ":", "0", "8">>, "BDID", "bdid", 8, FALSE),
       Token(<<"E", "C", "I", "D", ":", "0", "0", "0", "0", "0", "0", "0", "0", "0", "7", "8", "9", "A", "B", "C", "D">>, "ECID", "ecid", 126462925, FALSE),
       Token(<<"I", "B", "F", "L", ":", "1", "C">>, "IBFL", "ibfl", 28, FALSE),
       Token(<<"S", "R", "N", "M", ":", "[", "F", "2", "X", "]">>, "SRNM", "srnm", << <<"F", "2", "X">> >>, FALSE),
       Token(<<"I", "M", "E", "I", ":", "[", "3", "5", "2", "]">>, "IMEI", "imei", << <<"3", "5", "2">> >>, FALSE),
       Token(<<"S", "R", "T", "G", ":", "[", "i", "B", "o", "o", "t", "-", "3", "4", "0", "1", "]">>, "SRTG", "srtg", << <<"i", "B", "o", "o", "t", "-", "3", "4", "0", "1">> >>, FALSE),
       Token(<<"P", "W", "N", "D", ":", "[", "c", "h", "e", "c", "k", "m", "8", "]">>, "PWND", "pwnd", << <<"c", "h", "e", "c", "k", "m", "8">> >>, FALSE),
       Token(<<"N", "O", "N", "C", ":", "a", "a", "b", "b">>, "NONC", "ap_nonce", << <<170, 187>> >>, FALSE),
       Token(<<"S", "N", "O", "N", ":", "1", "1", "2", "2">>, "SNON", "sep_nonce", << <<17, 34>> >>, FALSE),
       Token(<<"S", "R", "N", "M", ":", "[", "F", "2", "X", "]", "]">>, "SRNM", "srnm", << <<"F", "2", "X">> >>, TRUE),
       Token(<<"I", "M", "E", "I", ":", "[", "3", "5", "]", "2", "]">>, "IMEI", "imei", << <<"3", "5">> >>, TRUE),
       Token(<<"S", "R", "T", "G", ":", "[", "i", "B", "o", "o", "t", "]", "-", "3", "4", "0", "1", "]">>, "SRTG", "srtg", << <<"i", "B", "o", "o", "t">> >>, TRUE),
       Token(<<"P", "W", "N", "D", ":", "[", "c", "h", "e", "c", "k", "m", "8", "]", "]">>, "PWND", "pwnd", << <<"c", "h", "e", "c", "k", "m", "8">> >>, TRUE) >>

\* "CPID:8010 CPRV:11 BDID:08 ECID:... SRNM:[F2X] NONC:aabb SNON:1122"
ExampleTokens == <<1, 2, 5, 6, 8, 12, 13>>

\* the same tokens in the opposite order
ExampleTokensReversed == <<13, 12, 8, 6, 5, 2, 1>>

\* the token sequences of the identity strings: at most MaxTags tokens with
\* different tags in any order, and the two longer examples
TokenSequences ==
    {q \in UNION {[1..n -> 1..Len(Tokens)] : n \in 0..MaxTags} :
        \A i, j \in 1..Len(q) : i # j => Tokens[q[i]].tag # Tokens[q[j]].tag}
    \cup {ExampleTokens, ExampleTokensReversed}

RECURSIVE JoinTokens(_)
\* the string of the tokens q, separated by one space
JoinTokens(q) ==
    IF q = << >> THEN << >>
    ELSE IF Len(q) = 1 THEN Tokens[q[1]].text
    ELSE Tokens[q[1]].text \o <<" ">> \o JoinTokens(Tail(q))

\* irecovery_finalize_client on an adopted device (DFU, handle 1, or
\* recovery, handle 2) whose string descriptors read the tokens q: the
\* serial string has been fetched, no ECID restriction is set
InitParse ==
    /\ client \in {Adopt(PolicyPrepare(NewClient(IRECOVERY_CLIENT_DEVICE_POLICY_ACCEPT_ALL, 0)),
                         h, TRUE) : h \in {1, 2}}
    /\ role = USB_ROLE_HOST
    /\ pc = "parse_serial"
    /\ nev = 0
    /\ desc_index = 0
    /\ ret = IRECOVERY_E_SUCCESS
    /\ last = Step("step", "irecovery_poll_for_device", "serial", NoEvent, "ok")
    /\ xfer \in {[NoTransfer EXCEPT !.tokens = q, !.serial_str = << JoinTokens(q) >>] :
                   q \in TokenSequences}

\* irecovery_load_device_info_from_iboot_string(client, serial_str); the
\* ECID check passes and the configuration is set
ParseSerial ==
    /\ pc = "parse_serial"
    /\ LET c1 == irecovery_load_device_info_from_iboot_string(client, xfer.serial_str[1])
       IN  /\ ~EcidMismatch(c1)
           /\ Goto("irecovery_poll_for_device", c1, "parse_nonce_ap", 1, "ok")

\* irecovery_copy_nonce_with_tag(client, "NONC", ...) when string
\* descriptor 1 reads the same text
ParseNonceAp ==
    /\ pc = "parse_nonce_ap"
    /\ CopyNonceProceeds(client, role, "ap_nonce")
    /\ LET buf == xfer.serial_str[1]
           c1  == StoreNonce(client, "ap_nonce", "ap_nonce_size", <<"N", "O", "N", "C">>,
                             [ret |-> Len(buf), buf |-> buf])
       IN  Goto("irecovery_poll_for_device", c1, "parse_nonce_sep", 1, "ok")

\* irecovery_copy_nonce_with_tag(client, "SNON", ...), then finalized = 1
ParseNonceSep ==
    /\ pc = "parse_nonce_sep"
    /\ CopyNonceProceeds(client, role, "sep_nonce")
    /\ LET buf == xfer.serial_str[1]
           c1  == StoreNonce(client, "sep_nonce", "sep_nonce_size", <<"S", "N", "O", "N">>,
                             [ret |-> Len(buf), buf |-> buf])
       IN  Return("irecovery_poll_for_device", MarkFinalized(c1), IRECOVERY_E_SUCCESS, "ok")

NextParse ==
    \/ ParseSerial
    \/ ParseNonceAp
    \/ ParseNonceSep

SpecParse == InitParse /\ [][NextParse]_vars

\* ------------------------------------------- uploads to a scripted device
\* what a device and the application answer during an upload: the state
\* read by GETSTATE, the transfer that does not succeed (frame, counted from
\* 1; 0: none) and how, or the status poll after it that fails (poll, counted
\* from 1; 0: none), the status polls after each download that report
\* status 4 before one reports 5 (busy), and what the progress callback
\* returns (cb)
Scripts ==
    {d \in [state : DfuStates, frame : 0..MaxFailAt, poll : 0..1,
            how : {"short", "fail"}, busy : {0, 1}, cb : CallbackReturns] :
        /\ d.frame = 0 => (d.poll = 0 /\ d.how = "fail")
        /\ d.poll # 0 => d.how = "fail"}

\* the options without IRECOVERY_SEND_OPT_DFU_SMALL_PKT
OptionsWithoutSmallPkt ==
    {IRECOVERY_SEND_OPT_NONE, IRECOVERY_SEND_OPT_DFU_NOTIFY_FINISH,
     IRECOVERY_SEND_OPT_DFU_FORCE_ZLP,
     IRECOVERY_SEND_OPT_DFU_NOTIFY_FINISH + IRECOVERY_SEND_OPT_DFU_FORCE_ZLP}

\* what a caller of irecovery_send_buffer and the device see of a call: the
\* transfers, the progress events and the return code
Observed(x, code) == [frames |-> x.frames, progress |-> x.progress, ret |-> code]

\* payload lengths of these uploads: none, a last chunk that leaves no room
\* for the trailer, and one byte more than a packet
OptionLengths(c) ==
    LET packet_size == SendBufferLocals(NoTransfer, c).packet_size
    IN  {0, packet_size - 15, packet_size + 1}

\* a finalized client, with or without a progress callback, whose device
\* and callback follow a script; no event is pending
InitOptions ==
    /\ client \in {[FinalizedClient(IRECOVERY_CLIENT_DEVICE_POLICY_ACCEPT_ALL, h)
                       EXCEPT !.progress_callback = cb] : h \in {1, 2}, cb \in {NULL, 1}}
    /\ role = USB_ROLE_HOST
    /\ pc = "idle"
    /\ nev = 0
    /\ desc_index = 0
    /\ ret = IRECOVERY_E_SUCCESS
    /\ last = Step("return", "irecovery_poll_for_device", "nonce_sep", NoEvent, "ok")
    /\ xfer \in {[NoTransfer EXCEPT !.script = << d >>] :
                   d \in {e \in Scripts : client.progress_callback = NULL => e.cb = 0}}

\* irecovery_send_buffer(client, buffer, length, options) is called, without
\* IRECOVERY_SEND_OPT_DFU_SMALL_PKT
SendBufferFirst ==
    /\ pc = "idle"
    /\ xfer.calls = 0
    /\ \E length \in OptionLengths(client), options \in OptionsWithoutSmallPkt :
         xfer' = [NoTransfer EXCEPT !.calls = 1, !.buffer = 1, !.length = length,
                                    !.options = options, !.script = xfer.script]
    /\ pc' = "sb_entry"
    /\ nev' = 0
    /\ last' = Step("call", "irecovery_send_buffer", pc, NoEvent, "ok")
    /\ UNCHANGED <<client, role, desc_index, ret>>

\* irecovery_send_buffer is called again with the same buffer and length and
\* with the options of the first call and IRECOVERY_SEND_OPT_DFU_SMALL_PKT
SendBufferSecond ==
    /\ pc = "idle"
    /\ xfer.calls = 1
    /\ xfer' = [NoTransfer EXCEPT !.calls = 2, !.buffer = xfer.buffer,
                                  !.length = xfer.length,
                                  !.options = xfer.options + IRECOVERY_SEND_OPT_DFU_SMALL_PKT,
                                  !.script = xfer.script,
                                  !.first = << Observed(xfer, ret) >>]
    /\ pc' = "sb_entry"
    /\ nev' = 0
    /\ last' = Step("call", "irecovery_send_buffer", pc, NoEvent, "ok")
    /\ UNCHANGED <<client, role, desc_index, ret>>

\* the step taken got from the adapter, the allocator and the callback what
\* the script says
Scripted ==
    LET d == xfer.script[1]
    IN  CASE pc \in {"sb_init", "sb_clear", "sb_packet", "sb_trailer", "sb_zlp",
                     "sb_finish", "sb_finish_zlp"} ->
                 /\ last'.outcome = IF d.frame = Len(xfer.frames) + 1 /\ d.poll = 0
                                     THEN d.how ELSE "ok"
                 /\ (pc = "sb_init" /\ ~xfer.recovery_mode /\ last'.outcome = "ok")
                       => xfer'.state = d.state
                 /\ xfer'.cancelled = (xfer'.progress # << >> /\ d.cb # 0)
           [] pc \in {"sb_status", "sb_retry", "sb_finish_status"} ->
                 /\ last'.outcome = IF d.frame = Len(xfer.frames) /\ d.poll = xfer.polls + 1
                                     THEN "fail" ELSE "ok"
                 /\ last'.outcome = "ok"
                       => xfer'.status = IF pc # "sb_finish_status" /\ xfer.polls < d.busy
                                          THEN 4 ELSE 5
                 /\ xfer'.cancelled = (xfer'.progress # << >> /\ d.cb # 0)
           [] OTHER -> last'.outcome = "ok"

NextOptions ==
    \/ SendBufferFirst
    \/ SendBufferSecond
    \/ SendBufferEntry /\ Scripted
    \/ SendBufferInitiate /\ Scripted
    \/ SendBufferClearState /\ Scripted
    \/ SendBufferLoop /\ Scripted
    \/ SendBufferPacket /\ Scripted
    \/ SendBufferTrailer /\ Scripted
    \/ SendBufferStatus /\ Scripted
    \/ SendBufferRetry /\ Scripted
    \/ SendBufferZlp /\ Scripted
    \/ SendBufferFinish /\ Scripted
    \/ SendBufferFinishStatus /\ Scripted
    \/ SendBufferFinishZlp /\ Scripted

SpecOptions == InitOptions /\ [][NextOptions]_vars



\* ----------------------------------------------------------------- claims
\* irecovery_poll_for_device has just returned (ret is its return value)
PollReturned == last.kind = "return" /\ last.op = "irecovery_poll_for_device"

\* the step taken is usb_event_handler for an event of the given type
IsEvent(step, type) == step.kind = "event" /\ step.ev.type = type

\* the step taken is a detach of device h: the disconnect of h, or the loss
\* of the host role
IsDetachOf(step, h) ==
    \/ IsEvent(step, "USB_DEVICE_DISCONNECTED_EVENT") /\ step.ev.dev = h
    \/ IsEvent(step, "USB_ROLE_CHANGED_EVENT") /\ step.ev.role = USB_ROLE_DEVICE

\* C1: in every reachable state either every field of the device zone
\* (handle, device descriptor, device info, mode, finalization flag) is zero
\* or the handle is non-null.
C1_ZoneZeroOrHandle ==
    \/ client.handle # NULL
    \/ /\ client.handle = NULL
       /\ client.device_descriptor = ZeroDescriptor
       /\ client.device_info = ZeroDeviceInfo
       /\ client.mode = 0
       /\ client.finalized = 0

\* C2: under the one-connection-limit policy, once a device has been adopted
\* a device-enabled event for a different handle changes no field of the
\* client.
C2_OneConnectionLimit ==
    [][ ( /\ client.connection_policy = IRECOVERY_CLIENT_DEVICE_POLICY_ONE_CONNECTION_LIMIT
          /\ client.handle # NULL
          /\ IsEvent(last', "USB_DEVICE_ENABLED_EVENT")
          /\ last'.ev.dev # client.handle )
        => client' = client ]_vars

\* C3: immediately after a device-enabled event that adopts a new handle the
\* finalization state is pending and the device info and the mode are zero.
C3_AdoptionStartsPending ==
    [][ ( /\ IsEvent(last', "USB_DEVICE_ENABLED_EVENT")
          /\ client'.handle # NULL
          /\ client'.handle # client.handle )
        => ( /\ client'.finalized = 0
             /\ client'.device_info = ZeroDeviceInfo
             /\ client'.mode = 0 ) ]_vars

\* the device info the parse of device h's identity string produces, nonces
\* aside
InfoPopulatedFrom(info, h) ==
    LET want == irecovery_load_device_info_from_iboot_string(
                    [device_descriptor |-> DeviceDescriptorOf(h), device_info |-> ZeroDeviceInfo,
                     mode |-> 0], IdentityString(h)).device_info
    IN  \A f \in DOMAIN info :
           f \notin {"ap_nonce", "ap_nonce_size", "sep_nonce", "sep_nonce_size"}
              => info[f] = want[f]

\* C4: the device zone is self-consistent: a non-null handle comes with the
\* descriptor fetched from it, and a finalized client has a non-null handle
\* and the device info and mode read from that handle.
C4_ZoneSelfConsistent ==
    /\ client.handle # NULL => client.device_descriptor = DeviceDescriptorOf(client.handle)
    /\ client.finalized = 1 =>
          /\ client.handle # NULL
          /\ InfoPopulatedFrom(client.device_info, client.handle)
          /\ client.mode = DeviceDescriptorOf(client.handle).idProduct


\* the step taken leaves the blocked state of an adoption of device h by
\* clearing the device zone: a detach of h, a device-enabled event for
\* another handle, or the application's irecovery_client_clear_device_zone
IsClearingStep(step, h) ==
    \/ IsDetachOf(step, h)
    \/ IsEvent(step, "USB_DEVICE_ENABLED_EVENT") /\ step.ev.dev # h
    \/ step.kind = "return" /\ step.op = "irecovery_client_clear_device_zone"

\* irecovery_finalize_client takes its entry tests (after the event
\* handling of irecovery_poll_for_device) and returns
PollReturnsAtEntry == pc = "poll" /\ pc' = "idle"

\* C5 as stated: once blocked, the finalization state stays blocked until a
\* detach (disconnect of the adopted handle or loss of the host role), and
\* every poll_for_device until then returns finalization blocked (-11).
C5_BlockedUntilDetach ==
    [][ /\ (client.finalized = -1 /\ client'.finalized # -1) => IsDetachOf(last', client.handle)
        /\ (PollReturnsAtEntry /\ client.finalized = -1)
              => ret' = IRECOVERY_E_FINALIZATION_BLOCKED ]_vars

\* C5 as amended: once blocked, the finalization state stays blocked until
\* the device zone is cleared (detach, a device-enabled event for another
\* handle, or an explicit irecovery_client_clear_device_zone), which makes
\* it pending; poll_for_device never changes it and returns finalization
\* blocked (-11) whenever it finds the client usable and blocked.
C5_BlockedUntilCleared ==
    [][ /\ (client.finalized = -1 /\ client'.finalized # -1)
              => (IsClearingStep(last', client.handle) /\ client'.finalized = 0)
        /\ (PollReturnsAtEntry /\ client.finalized = -1
               /\ irecovery_client_is_usable(client, role))
              => (ret' = IRECOVERY_E_FINALIZATION_BLOCKED /\ client' = client) ]_vars

\* witness of C5: a poll on a usable, blocked client has returned -11
C5_Witness ==
    /\ PollReturned
    /\ last.at = "poll"
    /\ ret = IRECOVERY_E_FINALIZATION_BLOCKED
    /\ client.finalized = -1
    /\ client.handle # NULL

\* C6: when the ECID restriction is non-zero and the parsed ECID differs,
\* poll_for_device returns ECID mismatch (-8), the state becomes blocked and
\* the client does not become finalized for that adoption; with restriction
\* 0 the ECID is never a reason for failure.
C6_EcidMismatch ==
    [][ /\ ( /\ pc = "serial" /\ pc' # "serial"
             /\ last'.outcome = "ok"
             /\ irecovery_client_is_usable(client, role)
             /\ StringDescriptorOf(client.handle, desc_index) # << >> )
           => IF /\ client.ecid_restriction # 0
                 /\ ScanNumber(StringDescriptorOf(client.handle, desc_index)[1], <<"E", "C", "I", "D", ":">>)
                       # client.ecid_restriction
              THEN /\ pc' = "idle"
                   /\ ret' = IRECOVERY_E_ECID_MISMATCH
                   /\ client'.finalized = -1
              ELSE pc' = "setcfg"
        /\ (last'.kind = "return" /\ last'.op = "irecovery_poll_for_device"
               /\ ret' = IRECOVERY_E_ECID_MISMATCH)
           => ( /\ client'.ecid_restriction # 0
                /\ client'.device_info.ecid # client'.ecid_restriction
                /\ client'.finalized = -1
                /\ last'.at = "serial" )
        /\ client.finalized = -1 => client'.finalized # 1 ]_vars

\* witness of C6: a poll has returned ECID mismatch and left the client
\* blocked with the device still attached
C6_Witness ==
    /\ PollReturned
    /\ ret = IRECOVERY_E_ECID_MISMATCH
    /\ client.finalized = -1
    /\ client.handle # NULL
    /\ client.device_info.ecid # client.ecid_restriction

\* C7: after a finalization attempt failed with ECID mismatch the string
\* fields of the device info (serial number, IMEI, SRTG, raw serial string,
\* PWND marker) are empty.
C7_StringsClearedOnMismatch ==
    (PollReturned /\ ret = IRECOVERY_E_ECID_MISMATCH)
       => ( /\ client.device_info.srnm = << >>
            /\ client.device_info.imei = << >>
            /\ client.device_info.srtg = << >>
            /\ client.device_info.serial_string = << >>
            /\ client.device_info.pwnd = << >> )

\* C8: whenever poll_for_device returns no device (-5) the finalization
\* state is not blocked afterwards.
C8_NoDeviceIsTransient ==
    (PollReturned /\ ret = IRECOVERY_E_NO_DEVICE) => client.finalized # -1

\* C9 as stated: if selecting configuration 1 fails, for any cause in that
\* step, the state becomes blocked and poll_for_device returns descriptor
\* set failed (-9).
C9_SetConfigurationFailure ==
    [][ (pc = "setcfg" /\ pc' = "idle" /\ irecovery_client_is_usable(client, role))
           => (client'.finalized = -1 /\ ret' = IRECOVERY_E_DESCRIPTOR_SET_FAILED) ]_vars

\* C9 as amended: if selecting configuration 1 fails the state becomes
\* blocked and poll_for_device returns the code of the failing part:
\* descriptor set failed (-9) when the set-configuration request fails,
\* descriptor fetch failed (-7) when the total configuration descriptor
\* cannot be fetched, out of memory (-3) when its buffer cannot be
\* allocated, no device (-5) when the client is no longer usable.
C9_SetConfigurationFailureCodes ==
    [][ pc = "setcfg" /\ pc' # "setcfg" =>
          IF irecovery_client_is_usable(client, role) /\ last'.outcome = "ok"
          THEN pc' # "idle" /\ client'.finalized = 0
          ELSE /\ pc' = "idle"
               /\ client'.finalized = -1
               /\ ret' = IF ~irecovery_client_is_usable(client, role)
                           THEN IRECOVERY_E_NO_DEVICE
                         ELSE IF last'.outcome = "set_fail"
                           THEN IRECOVERY_E_DESCRIPTOR_SET_FAILED
                         ELSE IF last'.outcome = "nomem"
                           THEN IRECOVERY_E_NO_MEMORY
                         ELSE IRECOVERY_E_DESCRIPTOR_FETCH_FAILED ]_vars

\* witness of C9: the configuration descriptor fetch failed on an attached
\* device; the poll returned -7 and the client is blocked
C9_Witness ==
    /\ PollReturned
    /\ last.at = "setcfg"
    /\ last.outcome \in {"no_length", "fetch_fail"}
    /\ client.handle # NULL
    /\ ret = IRECOVERY_E_DESCRIPTOR_FETCH_FAILED
    /\ client.finalized = -1

\* C10: poll_for_device returns success only if a device is attached
\* (handle non-null, host role held) and finalized when it returns, and it
\* returns no device (-5) whenever no device is attached after the pending
\* events have been handled.
C10_PollSuccessMeansAttached ==
    [][ /\ (last'.kind = "return" /\ last'.op = "irecovery_poll_for_device"
               /\ ret' = IRECOVERY_E_SUCCESS)
           => ( /\ client'.handle # NULL
                /\ role' = USB_ROLE_HOST
                /\ client'.finalized = 1 )
        /\ (pc = "poll" /\ pc' # "poll"
               /\ (client.handle = NULL \/ role # USB_ROLE_HOST))
           => (pc' = "idle" /\ ret' = IRECOVERY_E_NO_DEVICE) ]_vars

\* the device zone right after device h was adopted into a cleared zone
FreshlyAdopted(h) ==
    [ZeroDeviceZone EXCEPT !.handle = h, !.device_descriptor = DeviceDescriptorOf(h)]

\* C11: under the accept-only-when-none policy a device-enabled event for a
\* handle different from the current one, arriving while the current device
\* is usable, leaves the whole client unchanged; a new device is adopted
\* only when no device is usable.
C11_AcceptOnlyWhenNone ==
    [][ ( /\ client.connection_policy =
                IRECOVERY_CLIENT_DEVICE_POLICY_ACCEPT_ONLY_WHEN_NO_CURRENT_CONNECTION
          /\ IsEvent(last', "USB_DEVICE_ENABLED_EVENT") )
        => /\ (last'.ev.dev # client.handle /\ irecovery_client_is_usable(client, role))
                 => client' = client
           /\ (client'.handle # NULL /\ client'.handle # client.handle)
                 => ~irecovery_client_is_usable(client, role) ]_vars

\* witness of C11: under accept-only-when-none an enabled event for another
\* handle has just been handled while a device was attached, and that
\* device is still the client's
C11_Witness ==
    /\ client.connection_policy =
          IRECOVERY_CLIENT_DEVICE_POLICY_ACCEPT_ONLY_WHEN_NO_CURRENT_CONNECTION
    /\ IsEvent(last, "USB_DEVICE_ENABLED_EVENT")
    /\ role = USB_ROLE_HOST
    /\ client.handle # NULL
    /\ last.ev.dev # client.handle
    /\ client.finalized = 1

\* C12: under the accept-all policy a device-enabled event (host role held)
\* for a handle different from the current one clears the device zone and
\* then attempts adoption: afterwards the zone holds the new handle and its
\* descriptor and nothing else if the new device is supported, and is
\* entirely zero if it is not; the previous handle is never retained.
C12_AcceptAllDisplaces ==
    [][ ( /\ client.connection_policy = IRECOVERY_CLIENT_DEVICE_POLICY_ACCEPT_ALL
          /\ IsEvent(last', "USB_DEVICE_ENABLED_EVENT")
          /\ role = USB_ROLE_HOST
          /\ last'.ev.dev # client.handle )
        => /\ DeviceZone(client') =
                 IF last'.ev.fetch_ok
                    /\ DeviceDescriptorOf(last'.ev.dev).idProduct
                          \in {4736, 4737, 4738, 4739, 4642, 4647}
                 THEN FreshlyAdopted(last'.ev.dev)
                 ELSE ZeroDeviceZone
           /\ client.handle # NULL => client'.handle # client.handle ]_vars

\* witness of C12: under accept-all an identified device has just been
\* displaced by another supported device
C12_Witness ==
    /\ client.connection_policy = IRECOVERY_CLIENT_DEVICE_POLICY_ACCEPT_ALL
    /\ IsEvent(last, "USB_DEVICE_ENABLED_EVENT")
    /\ last.at = "nonce_ap"
    /\ client.handle = last.ev.dev
    /\ DeviceZone(client) = FreshlyAdopted(last.ev.dev)

C14_StaticZoneKept ==
    [][ (device_zone_nonzero(client) /\ ~device_zone_nonzero(client'))
        => /\ client'.connection_policy = client.connection_policy
           /\ client'.ecid_restriction = client.ecid_restriction
           /\ client'.log_fp = client.log_fp
           /\ client'.num_connections = client.num_connections
           /\ client'.progress_callback = client.progress_callback ]_vars


\* ------------------------------------------------------ claims: the uploads
\* irecovery_send_buffer has just returned (ret is its return value)
UploadReturned == last.kind = "return" /\ last.op = "irecovery_send_buffer"

\* the upload that returned had a buffer, met the device attached at every
\* step and had every transfer succeed
CleanUpload == UploadReturned /\ xfer.buffer # NULL /\ xfer.clean

\* ceil(n / d)
CeilDiv(n, d) == (n \div d) + (IF n % d # 0 THEN 1 ELSE 0)

\* the frames of the sequence frames that satisfies Test
RECURSIVE CountFrames(_, _, _)
CountFrames(frames, Test(_), k) ==
    IF k > Len(frames) THEN 0
    ELSE (IF Test(frames[k]) THEN 1 ELSE 0) + CountFrames(frames, Test, k + 1)

IsBulkData(f) == f.kind = "bulk" /\ f.wIndex = 4 /\ f.size > 0

IsBulkZlp(f) == f.kind = "bulk" /\ f.wIndex = 4 /\ f.size = 0

\* C15: an upload of length L in recovery mode in which the device stays
\* attached and every transfer succeeds has sent, when it returns, exactly
\* ceil(L / 0x8000) data bulk frames on endpoint 0x04, the consecutive
\* slices of the buffer, and one trailing zero-length bulk frame exactly
\* when L mod 512 = 0
C15_RecoveryBulkFrames ==
    (CleanUpload /\ xfer.recovery_mode) =>
        LET n == CeilDiv(xfer.length, 32768)
            z == IF xfer.length % 512 = 0 THEN 1 ELSE 0
        IN  /\ CountFrames(xfer.frames, IsBulkData, 1) = n
            /\ CountFrames(xfer.frames, IsBulkZlp, 1) = z
            /\ Len(xfer.frames) = 1 + n + z
            /\ \A k \in 1..n :
                 /\ IsBulkData(xfer.frames[1 + k])
                 /\ xfer.frames[1 + k].offset = (k - 1) * 32768
            /\ z = 1 => IsBulkZlp(xfer.frames[Len(xfer.frames)])

\* the values of irecovery_error_t
ErrorTaxonomy == IRECOVERY_E_UNKNOWN_EVENT_TYPE..IRECOVERY_E_SUCCESS

\* C16: every value irecovery_send_buffer returns is a member of the error
\* taxonomy {0, -1, ..., -18}: an upload in recovery mode in which all
\* transfers succeed returns 0, and a byte count is never returned in place
\* of an error code
C16_ReturnsInTaxonomy ==
    UploadReturned =>
        /\ ret \in ErrorTaxonomy
        /\ (CleanUpload /\ xfer.recovery_mode) => ret = IRECOVERY_E_SUCCESS

\* C17: once a registered progress callback has returned non-zero after a
\* packet, irecovery_send_buffer aborts: its next step transmits nothing
\* (no further packet, no ZLP, no finish notification) and returns USB
\* upload failed (-12)
C17_CallbackAborts ==
    [][(pc # "idle" /\ xfer.cancelled /\ last'.op = "irecovery_send_buffer") =>
           /\ xfer'.frames = xfer.frames
           /\ pc' = "idle"
           /\ ret' = IRECOVERY_E_USB_UPLOAD_FAILED]_vars

\* the upload that returned had a buffer and returned success
UploadSucceeded ==
    UploadReturned /\ xfer.buffer # NULL /\ ret = IRECOVERY_E_SUCCESS

\* a download (0x21, 1) control transfer that carries data
IsDataDownload(f) ==
    /\ f.kind = "control" /\ f.bmRequestType = 33 /\ f.bRequest = 1
    /\ f.size + Len(f.trailer) > 0

\* the download carries exactly the bytes offset .. offset + size - 1 of the
\* buffer, followed by the 16-byte trailer or by nothing
CarriesPayload(f, offset, size, with_trailer) ==
    /\ IsDataDownload(f)
    /\ f.offset = offset /\ f.size = size
    /\ Len(f.trailer) = IF with_trailer THEN 16 ELSE 0

\* C18 (as stated): a successful DFU/WTF upload of length L < 0x800 has
\* issued exactly one download control transfer carrying data, and that
\* transfer carries the payload followed by the 16-byte trailer
C18_SmallUploadOneDownload ==
    (UploadSucceeded /\ ~xfer.recovery_mode /\ xfer.length < 2048) =>
        /\ CountFrames(xfer.frames, IsDataDownload, 1) = 1
        /\ CarriesPayload(xfer.frames[2], 0, xfer.length, TRUE)

\* C18 (amended): a successful DFU/WTF upload of length L < 0x800 has issued
\* no download carrying data when L = 0, exactly one, with the payload
\* followed by the 16-byte trailer, when 0 < L <= 0x7F0, and exactly two,
\* the payload and then the 16-byte trailer alone, when 0x7F0 < L < 0x800
C18_SmallUploadDownloads ==
    (UploadSucceeded /\ ~xfer.recovery_mode /\ xfer.length < 2048) =>
        LET n == CountFrames(xfer.frames, IsDataDownload, 1)
        IN  IF xfer.length = 0 THEN n = 0
            ELSE IF xfer.length <= 2032
            THEN /\ n = 1
                 /\ CarriesPayload(xfer.frames[2], 0, xfer.length, TRUE)
            ELSE /\ n = 2
                 /\ CarriesPayload(xfer.frames[2], 0, xfer.length, FALSE)
                 /\ CarriesPayload(xfer.frames[3], 0, 0, TRUE)

\* a DFU upload of 0x7F0 bytes has succeeded with its single download
C18_Witness ==
    /\ UploadSucceeded /\ ~xfer.recovery_mode /\ xfer.length = 2032
    /\ CountFrames(xfer.frames, IsDataDownload, 1) = 1
    /\ Len(xfer.frames[2].trailer) = 16

\* a control transfer that carries the 16-byte trailer
CarriesTrailer(f) == Len(f.trailer) > 0

\* C19: in a successful DFU/WTF upload whose final payload chunk has size s,
\* the chunks before it go in one download each; if s + 16 > 0x800 the
\* final chunk is its own control transfer and the trailer follows as a
\* standalone 16-byte control transfer, otherwise the final chunk and the
\* trailer go together in one control transfer of s + 16 bytes; the trailer
\* is transmitted exactly once and only after all payload bytes
C19_TrailerPlacement ==
    (UploadSucceeded /\ ~xfer.recovery_mode /\ xfer.length > 0) =>
        LET p == xfer.packets
            s == xfer.last
            F == xfer.frames
            n == CountFrames(F, IsDataDownload, 1)
        IN  /\ \A k \in 1..(p - 1) : CarriesPayload(F[1 + k], (k - 1) * 2048, 2048, FALSE)
            /\ IF s + 16 > 2048
               THEN /\ n = p + 1
                    /\ CarriesPayload(F[1 + p], (p - 1) * 2048, s, FALSE)
                    /\ CarriesPayload(F[2 + p], (p - 1) * 2048, 0, TRUE)
               ELSE /\ n = p
                    /\ CarriesPayload(F[1 + p], (p - 1) * 2048, s, TRUE)
            /\ CountFrames(F, CarriesTrailer, 1) = 1
            /\ (p - 1) * 2048 + s = xfer.length

\* a DFU upload of two full packets has succeeded: its second chunk went
\* alone and the trailer after it
C19_Witness ==
    /\ UploadSucceeded /\ ~xfer.recovery_mode /\ xfer.length = 4096
    /\ xfer.last + 16 > 2048
    /\ CountFrames(xfer.frames, IsDataDownload, 1) = 3
    /\ CarriesTrailer(xfer.frames[4])

\* a >> 1 on uint32_t
ShiftRight1(a) ==
    <<(a[1] \div 2) + 128 * (a[2] % 2), (a[2] \div 2) + 128 * (a[3] % 2),
      (a[3] \div 2) + 128 * (a[4] % 2), a[4] \div 2>>

\* k more rounds of the bitwise reflected CRC division of c by poly
RECURSIVE ReflectedRounds(_, _, _)
ReflectedRounds(poly, c, k) ==
    IF k = 0 THEN c
    ELSE ReflectedRounds(poly,
                         IF c[1] % 2 = 1 THEN Xor32(ShiftRight1(c), poly) ELSE ShiftRight1(c),
                         k - 1)

\* the reversed-polynomial table of a CRC-32 with polynomial poly
ReversedTable(poly) == [n \in 1..256 |-> ReflectedRounds(poly, <<n - 1, 0, 0, 0>>, 8)]

\* the tables for the polynomials 0xEDB88820 and 0xEDB88320
ReversedTable_EDB88820 == ReversedTable(<<32, 136, 184, 237>>)

ReversedTable_EDB88320 == ReversedTable(<<32, 131, 184, 237>>)

\* byte k of the payload of length L followed by the 12 magic bytes
PayloadAndMagic(L, k) == IF k < L THEN Buffer(k) ELSE dfu_xbuf[k - L + 1]

\* the table-driven CRC-32 with table T, from value h, over the bytes
\* lo .. hi of the payload of length L followed by the magic bytes
RECURSIVE Crc32(_, _, _, _, _)
Crc32(T, h, lo, hi, L) ==
    IF lo > hi THEN h
    ELSE IF lo = hi
    THEN Xor32(T[Xor8(h[1], PayloadAndMagic(L, lo)) + 1], <<h[2], h[3], h[4], 0>>)
    ELSE LET mid  == (lo + hi) \div 2
             left == Crc32(T, h, lo, mid, L)
         IN  IF left[1] >= 0 THEN Crc32(T, left, mid + 1, hi, L) ELSE left

\* the trailer of a payload of length L under table T: the magic bytes and
\* the little-endian CRC-32, initial value 0xFFFFFFFF, no final XOR
ExpectedTrailer(T, L) ==
    dfu_xbuf \o Crc32(T, <<255, 255, 255, 255>>, 0, L + 11, L)

\* irecovery_send_buffer has just built the trailer it is about to transmit
TrailerJustBuilt ==
    /\ last.kind = "step" /\ last.op = "irecovery_send_buffer"
    /\ \/ pc = "sb_packet" /\ last.at = "sb_loop" /\ xfer.trailer # << >>
       \/ pc = "sb_trailer" /\ last.at = "sb_packet"

\* every trailer transmitted so far is the one irecovery_send_buffer built
TrailersAsBuilt ==
    \A k \in 1..Len(xfer.frames) :
        CarriesTrailer(xfer.frames[k]) => xfer.frames[k].trailer = xfer.trailer

\* C20 (as stated): the trailer transmitted for a payload uploaded in DFU/WTF
\* mode ends with the little-endian CRC-32 (reversed-polynomial table for
\* poly 0xEDB88820, initial value 0xFFFFFFFF, no final XOR) of the whole
\* payload followed by the 12 magic bytes
C20_TrailerCrc_EDB88820 ==
    /\ TrailersAsBuilt
    /\ TrailerJustBuilt => xfer.trailer = ExpectedTrailer(ReversedTable_EDB88820, xfer.length)

\* C20 (amended): the trailer transmitted for a payload uploaded in DFU/WTF
\* mode is the 12 magic bytes followed by the little-endian CRC-32
\* (reversed-polynomial table for poly 0xEDB88320, initial value
\* 0xFFFFFFFF, no final XOR) of the whole payload followed by the 12 magic
\* bytes
C20_TrailerCrc ==
    /\ TrailersAsBuilt
    /\ TrailerJustBuilt => xfer.trailer = ExpectedTrailer(ReversedTable_EDB88320, xfer.length)

\* a DFU upload of 0x801 bytes has succeeded, and the trailer that went with
\* its second packet ends with 60 19 09 6D, the CRC-32 0x6D091960
C20_Witness ==
    /\ UploadSucceeded /\ ~xfer.recovery_mode /\ xfer.length = 2049
    /\ xfer.frames[3].trailer = dfu_xbuf \o <<96, 25, 9, 109>>

\* a step of irecovery_send_buffer that polls the status after a packet:
\* it makes at most the poll number most of that packet and sends nothing;
\* it goes on to the next packet exactly when the poll reports status 5,
\* and otherwise polls again or returns: from the retries with USB upload
\* failed (-12), from the first poll with one of the codes first
PacketPollStep(most, first) ==
    (pc \in {"sb_status", "sb_retry"} /\ last'.op = "irecovery_send_buffer") =>
        /\ xfer'.frames = xfer.frames
        /\ irecovery_client_is_usable(client, role) => xfer.polls + 1 <= most
        /\ (xfer'.status = 5) <=> (pc' = "sb_loop")
        /\ pc' \in {"sb_loop", "sb_retry", "idle"}
        /\ pc' = "idle" =>
             IF pc = "sb_status" THEN ret' \in first
             ELSE ret' = IRECOVERY_E_USB_UPLOAD_FAILED

\* C21 (as stated): after each DFU/WTF packet irecovery_send_buffer issues
\* at most 20 GETSTATUS polls for that packet; it proceeds to the next
\* packet as soon as a poll reports status 5, and if no poll reports status
\* 5 it returns USB upload failed (-12) without sending further packets
C21_AtMost20Polls ==
    [][PacketPollStep(20, {IRECOVERY_E_USB_UPLOAD_FAILED})]_vars

\* C21 (amended): after each DFU/WTF packet irecovery_send_buffer issues at
\* most 21 GETSTATUS polls for that packet, a first one and up to 20
\* retries; it proceeds to the next packet as soon as a poll reports status
\* 5; it returns invalid USB status (-13) or no device (-5) when the first
\* poll fails, and USB upload failed (-12) when none of the 21 polls
\* reports status 5, in each case without sending further packets
C21_AtMost21Polls ==
    [][PacketPollStep(21,
                      {IRECOVERY_E_INVALID_USB_STATUS, IRECOVERY_E_NO_DEVICE})]_vars

\* an upload has returned USB upload failed after the 21st poll of a packet
\* reported a status other than 5
C21_Witness ==
    /\ UploadReturned /\ last.at = "sb_retry"
    /\ ret = IRECOVERY_E_USB_UPLOAD_FAILED
    /\ xfer.polls = 21 /\ ~xfer.acked

\* the step transmits a download control transfer that carries data, after
\* an earlier one of the same upload
NextDataDownload ==
    /\ Len(xfer'.frames) = Len(xfer.frames) + 1
    /\ xfer'.calls = xfer.calls
    /\ IsDataDownload(xfer'.frames[Len(xfer'.frames)])
    /\ CountFrames(xfer.frames, IsDataDownload, 1) > 0

\* C22: within one DFU/WTF upload the transfers are strictly sequential:
\* between any two consecutive data-carrying download (0x21, 1) control
\* transfers a completed status poll has observed status 5, also between
\* the final payload chunk and a trailer sent as a standalone frame
C22_PollBetweenDownloads ==
    [][NextDataDownload => xfer.acked]_vars


\* ---------------------------------- claims: commands and device requests
\* irecovery_send_command or irecovery_send_command_breq has just returned
CommandReturned ==
    /\ last.kind = "return"
    /\ last.op \in {"irecovery_send_command", "irecovery_send_command_breq"}

\* C23: for a client that is usable and in a recovery mode throughout the
\* call, a command of length 1..255 is transmitted in one control transfer
\* with wLength = length + 1 and the call succeeds when the transfer
\* succeeds; a command of length 256 or more returns command too long (-14)
\* and a command of length 0 returns no command (-15), both without any
\* control transfer
C23_CommandLength ==
    (CommandReturned /\ xfer.command # << >> /\ xfer.clean /\ InRecoveryMode(client)) =>
        LET length == Len(xfer.command[1])
        IN  IF length = 0
            THEN ret = IRECOVERY_E_NO_COMMAND /\ xfer.frames = << >>
            ELSE IF length >= 256
            THEN ret = IRECOVERY_E_COMMAND_TOO_LONG /\ xfer.frames = << >>
            ELSE /\ ret = IRECOVERY_E_SUCCESS
                 /\ Len(xfer.frames) = 1
                 /\ xfer.frames[1].kind = "control"
                 /\ xfer.frames[1].size = length + 1

\* a command of 255 characters has been sent with wLength 256
C23_Witness ==
    /\ CommandReturned /\ xfer.clean /\ InRecoveryMode(client)
    /\ xfer.command = << Padded(255) >>
    /\ ret = IRECOVERY_E_SUCCESS
    /\ Len(xfer.frames) = 1 /\ xfer.frames[1].size = 256

\* C24: the control transfer of irecovery_send_command(cmd) has
\* bmRequestType 0x40, wValue = wIndex = 0, and bRequest = 1 exactly when
\* cmd is one of "go", "bootx", "reboot", "memboot", bRequest = 0 for every
\* other command; irecovery_send_command_breq(cmd, b) uses b unchanged
C24_CommandRequest ==
    \A k \in 1..Len(xfer.frames) :
        LET f == xfer.frames[k]
        IN  /\ xfer.op = "irecovery_send_command" =>
                 /\ f.kind = "control" /\ f.bmRequestType = 64
                 /\ f.wValue = 0 /\ f.wIndex = 0
                 /\ f.bRequest = IF xfer.command[1] \in BreqCommands THEN 1 ELSE 0
            /\ xfer.op = "irecovery_send_command_breq" =>
                 /\ f.kind = "control" /\ f.bmRequestType = 64
                 /\ f.wValue = 0 /\ f.wIndex = 0
                 /\ f.bRequest = xfer.b_request

\* irecovery_send_command("memboot") has sent its control transfer with
\* bRequest 1
C24_Witness ==
    /\ CommandReturned /\ last.op = "irecovery_send_command"
    /\ xfer.command = << <<"m", "e", "m", "b", "o", "o", "t">> >>
    /\ Len(xfer.frames) = 1 /\ xfer.frames[1].bRequest = 1

\* the entry test of an operation called with valid arguments runs on a
\* client with no device adopted, with no USB event pending
EntryWithoutDevice ==
    /\ pc \in {"ft_entry", "rs_entry", "rc_entry", "scb_entry"}
    /\ pc = "scb_entry" => xfer.command # << >>
    /\ client.handle = NULL
    /\ nev = 0 /\ last'.kind # "event"

GetModeStep == pc = "gm_entry" /\ xfer.buffer # NULL /\ last'.kind # "event"

\* C26 (as stated): for a usable client irecovery_get_mode returns PWNDFU
\* (0xffff) when the identity string had a PWND:[..] tag, whatever the
\* product id, and otherwise the raw mode, the product id of the adopted
\* device; when the device has detached it returns no device and no mode
C26_ModeIsProductId ==
    [][GetModeStep =>
           IF irecovery_client_is_usable(client, role)
           THEN /\ ret' = IRECOVERY_E_SUCCESS
                /\ xfer'.mode = IF client.device_info.pwnd # << >>
                                THEN IRECOVERY_K_PWNDFU_MODE
                                ELSE client.device_descriptor.idProduct
           ELSE /\ ret' = IRECOVERY_E_NO_DEVICE
                /\ xfer'.mode = xfer.mode]_vars

\* C26 (amended): for a usable client irecovery_get_mode returns PWNDFU
\* (0xffff) when the device info has a PWND value, whatever the product
\* id, and otherwise the mode field of the client, which is the product id
\* stored when an identity string was last parsed and 0 when none was
\* parsed since the zone was cleared; when the device has detached it
\* returns no device and no mode
C26_ModeReported ==
    [][GetModeStep =>
           IF irecovery_client_is_usable(client, role)
           THEN /\ ret' = IRECOVERY_E_SUCCESS
                /\ xfer'.mode = IF client.device_info.pwnd # << >>
                                THEN IRECOVERY_K_PWNDFU_MODE
                                ELSE client.mode
                /\ client.mode \in {0, client.device_info.pid}
           ELSE /\ ret' = IRECOVERY_E_NO_DEVICE
                /\ xfer'.mode = xfer.mode]_vars

\* irecovery_get_mode has reported PWNDFU for the device in DFU mode whose
\* identity string has a PWND tag
C26_Witness ==
    /\ last.kind = "return" /\ last.op = "irecovery_get_mode"
    /\ ret = IRECOVERY_E_SUCCESS
    /\ client.device_descriptor.idProduct = IRECOVERY_K_DFU_MODE
    /\ client.device_info.pwnd # << >>
    /\ xfer.mode = IRECOVERY_K_PWNDFU_MODE


\* the identification of the device whose strings read xfer.tokens is over
Identified == pc = "idle" /\ xfer.serial_str # << >> /\ client.finalized = 1

\* the value of the token of q that belongs to field, zero when q has none
TokenValue(q, field, zero) ==
    IF \E i \in 1..Len(q) : Tokens[q[i]].field = field
    THEN Tokens[q[CHOOSE i \in 1..Len(q) : Tokens[q[i]].field = field]].value
    ELSE zero

\* the device info the tokens q encode, for the client c
TokenInfo(c, q) ==
    [f \in DOMAIN ZeroDeviceInfo |->
        CASE f = "serial_string" -> << JoinTokens(q) >>
          [] f = "pid"           -> c.device_descriptor.idProduct
          [] f = "ap_nonce_size" ->
                 IF TokenValue(q, "ap_nonce", << >>) = << >> THEN 0
                 ELSE Len(TokenValue(q, "ap_nonce", << >>)[1])
          [] f = "sep_nonce_size" ->
                 IF TokenValue(q, "sep_nonce", << >>) = << >> THEN 0
                 ELSE Len(TokenValue(q, "sep_nonce", << >>)[1])
          [] OTHER               -> TokenValue(q, f, ZeroDeviceInfo[f])]

UpToFirstBracket(s, tag) ==
    SubSeq(s, strstr(s, tag) + Len(tag), strchr(s, strstr(s, tag) + Len(tag), "]") - 1)

\* the bracketed tags and their fields
BracketedTags ==
    { [tag |-> <<"S", "R", "N", "M", ":", "[">>, field |-> "srnm"], [tag |-> <<"I", "M", "E", "I", ":", "[">>, field |-> "imei"],
      [tag |-> <<"S", "R", "T", "G", ":", "[">>, field |-> "srtg"], [tag |-> <<"P", "W", "N", "D", ":", "[">>, field |-> "pwnd"] }

\* C28: after identification, the value of every bracketed tag that occurs
\* in the string and is closed by a ']' is the characters between its '['
\* and the first ']' after it, also when further ']' follow before the
\* next space
C28_StopsAtFirstBracket ==
    Identified =>
        \A t \in BracketedTags :
            LET s == xfer.serial_str[1]
            IN  (strstr(s, t.tag) # NULL /\ strchr(s, strstr(s, t.tag) + Len(t.tag), "]") # NULL)
                    => client.device_info[t.field] = << UpToFirstBracket(s, t.tag) >>

\* ------------------------------------------------ claims: the USB events
\* the fields outside the device zone are the same in c and d
SameStaticZone(c, d) ==
    \A f \in (DOMAIN c) \ DeviceZoneFields : c[f] = d[f]

\* C29: detach events clear the device zone: after a role-changed event
\* whose new role is not host, or a device-disconnected event for the
\* handle of the client, every field of the device zone is zero (handle
\* null, finalization pending) and the other fields are kept; a
\* device-disconnected event for any other handle leaves the client
\* unchanged
C29_DetachClears ==
    [][/\ (IsEvent(last', "USB_ROLE_CHANGED_EVENT") /\ last'.ev.role # USB_ROLE_HOST) =>
             /\ DeviceZone(client') = ZeroDeviceZone
             /\ client'.handle = NULL /\ client'.finalized = 0
             /\ SameStaticZone(client, client')
       /\ (IsEvent(last', "USB_DEVICE_DISCONNECTED_EVENT") /\ last'.ev.dev = client.handle) =>
             /\ DeviceZone(client') = ZeroDeviceZone
             /\ client'.handle = NULL /\ client'.finalized = 0
             /\ SameStaticZone(client, client')
       /\ (IsEvent(last', "USB_DEVICE_DISCONNECTED_EVENT") /\ last'.ev.dev # client.handle) =>
             client' = client]_vars

\* the device whose configuration was about to be set has been disconnected
\* and the zone is zero
C29_Witness ==
    /\ pc = "setcfg" /\ nev = 1
    /\ IsEvent(last, "USB_DEVICE_DISCONNECTED_EVENT")
    /\ role = USB_ROLE_HOST
    /\ DeviceZone(client) = ZeroDeviceZone

\* C30: these events never change a field of the client: device-connected,
\* device-disabled, device-enabled while the host role is not held, and
\* device-enabled for the handle that is already the handle of the client
C30_EventsWithoutEffect ==
    [][(\/ IsEvent(last', "USB_DEVICE_CONNECTED_EVENT")
        \/ IsEvent(last', "USB_DEVICE_DISABLED_EVENT")
        \/ IsEvent(last', "USB_DEVICE_ENABLED_EVENT") /\ role # USB_ROLE_HOST
        \/ IsEvent(last', "USB_DEVICE_ENABLED_EVENT") /\ last'.ev.dev = client.handle)
         => client' = client]_vars

\* under accept-all, the identified device whose configuration was about to
\* be set has been enabled again and has kept its device info
C30_Witness ==
    /\ pc = "setcfg" /\ nev = 1
    /\ IsEvent(last, "USB_DEVICE_ENABLED_EVENT")
    /\ last.ev.dev = client.handle /\ role = USB_ROLE_HOST
    /\ client.connection_policy = IRECOVERY_CLIENT_DEVICE_POLICY_ACCEPT_ALL
    /\ client.device_info.serial_string # << >>

\* c with the handle and the device descriptor of d
WithHandleOf(c, d) ==
    [c EXCEPT !.handle = d.handle, !.device_descriptor = d.device_descriptor]

\* C31: a step of the event handler leaves the client as it was or with its
\* device zone cleared, but for the handle and the device descriptor it may
\* store; it starts no descriptor fetch and moves no call.  The
\* finalization state becomes finalized or blocked only in a step of
\* irecovery_poll_for_device, and so do device info and mode become non-zero
C31_OnlyPollingFinalizes ==
    [][/\ last'.kind = "event" =>
             /\ client' \in {WithHandleOf(client, client'),
                             WithHandleOf(irecovery_client_clear_device_zone(client), client')}
             /\ pc' = pc /\ desc_index' = desc_index /\ ret' = ret
       /\ (\/ client'.finalized \notin {0, client.finalized}
           \/ client'.device_info \notin {ZeroDeviceInfo, client.device_info}
           \/ client'.mode \notin {0, client.mode})
             => (last'.kind # "event" /\ last'.op = "irecovery_poll_for_device")]_vars

\* the event handler has adopted a device during irecovery_poll_for_device:
\* handle and descriptor are stored, nothing is identified or finalized
C31_Witness ==
    /\ pc = "poll"
    /\ IsEvent(last, "USB_DEVICE_ENABLED_EVENT")
    /\ client.handle = last.ev.dev /\ client.handle # NULL
    /\ client.device_descriptor = DeviceDescriptorOf(client.handle)
    /\ client.device_info = ZeroDeviceInfo /\ client.mode = 0 /\ client.finalized = 0

\* a control transfer (bmRequestType, bRequest) with wValue = wIndex = 0 and
\* no data from the buffer
IsRequest(f, bmRequestType, bRequest) ==
    /\ f.kind = "control" /\ f.bmRequestType = bmRequestType /\ f.bRequest = bRequest
    /\ f.wValue = 0 /\ f.wIndex = 0 /\ f.size = 0 /\ f.trailer = << >>

\* a download (0x21, 1) control transfer, with or without data
IsDownload(f) == f.kind = "control" /\ f.bmRequestType = 33 /\ f.bRequest = 1

\* C32: in DFU/WTF mode the first transfer of irecovery_send_buffer is the
\* GETSTATE read (0xA1, 5) and a download is sent only when the state read is
\* 2; when the state read is 10 (any other state) the call returns -12 and
\* its transfers are the GETSTATE read and one CLRSTATUS (0x21, 4) (one
\* ABORT (0x21, 6)), which is not issued when the device was lost before
\* it.  In recovery mode the first transfer is the control transfer
\* (0x41, 0) and every bulk frame comes after it
C32_StateGate ==
    /\ (xfer.frames # << >> /\ ~xfer.recovery_mode) =>
          /\ IsRequest(xfer.frames[1], 161, 5)
          /\ \A k \in 1..Len(xfer.frames) : IsDownload(xfer.frames[k]) => xfer.state = 2
    /\ (xfer.frames # << >> /\ xfer.recovery_mode) =>
          /\ IsRequest(xfer.frames[1], 65, 0)
          /\ \A k \in 1..Len(xfer.frames) : xfer.frames[k].kind = "bulk" => k > 1
    /\ (UploadReturned /\ xfer.state \notin {0, 2}) =>
          /\ ret = IRECOVERY_E_USB_UPLOAD_FAILED
          /\ Len(xfer.frames) = IF irecovery_client_is_usable(client, role) THEN 2 ELSE 1
          /\ \A k \in 2..Len(xfer.frames) :
                IsRequest(xfer.frames[k], 33, IF xfer.state = 10 THEN 4 ELSE 6)

\* an upload that read state 10 has returned -12 after GETSTATE and CLRSTATUS
C32_Witness ==
    /\ UploadReturned /\ xfer.state = 10 /\ ret = IRECOVERY_E_USB_UPLOAD_FAILED
    /\ Len(xfer.frames) = 2
    /\ IsRequest(xfer.frames[1], 161, 5) /\ IsRequest(xfer.frames[2], 33, 4)

\* the step taken has issued a download, the last of the frames
DownloadIssued ==
    /\ Len(xfer'.frames) = Len(xfer.frames) + 1
    /\ IsDownload(xfer'.frames[Len(xfer'.frames)])

\* the number that goes with the download issued at the current position:
\* the packet number i, or the number of packets for the finish notification
DownloadNumber == IF pc = "sb_finish" THEN xfer.packets ELSE xfer.i

\* C33 (as stated): every download of a DFU/WTF upload is issued with
\* wIndex = i for packet i and wValue = 0, and the finish notification with
\* wIndex = number of packets and wValue = 0
C33_PacketInIndex ==
    [][DownloadIssued =>
          /\ xfer'.frames[Len(xfer'.frames)].wIndex = DownloadNumber
          /\ xfer'.frames[Len(xfer'.frames)].wValue = 0]_vars

\* C33 (amended): every download of a DFU/WTF upload is issued with
\* bmRequestType 0x21, bRequest 1, wValue = i for packet i (also for the
\* trailer that follows the last chunk on its own) and wIndex = 0, and the
\* finish notification with wValue = number of packets and wIndex = 0
C33_PacketInValue ==
    [][DownloadIssued =>
          /\ xfer'.frames[Len(xfer'.frames)].wValue = DownloadNumber
          /\ xfer'.frames[Len(xfer'.frames)].wIndex = 0
          /\ pc \in {"sb_packet", "sb_trailer", "sb_finish"} /\ ~xfer.recovery_mode]_vars

\* a successful upload of two packets with the finish notification: the
\* second packet went with wValue 1 and the notification with wValue 2
C33_Witness ==
    /\ UploadSucceeded /\ xfer.packets = 2 /\ Len(xfer.frames) >= 4
    /\ \E k \in 1..Len(xfer.frames) :
          IsDataDownload(xfer.frames[k]) /\ xfer.frames[k].wValue = 1
                                         /\ xfer.frames[k].wIndex = 0
    /\ \E k \in 1..Len(xfer.frames) :
          /\ IsDownload(xfer.frames[k]) /\ ~IsDataDownload(xfer.frames[k])
          /\ xfer.frames[k].wValue = 2 /\ xfer.frames[k].wIndex = 0

\* the zero-length download (0x21, 1) that notifies the end of an upload
IsFinishDownload(f) == IsDownload(f) /\ f.size = 0 /\ f.trailer = << >>

\* the transfers and the reset that end a DFU/WTF upload with
\* IRECOVERY_SEND_OPT_DFU_NOTIFY_FINISH
IsTerminal(f) == IsFinishDownload(f) \/ IsRequest(f, 33, 0) \/ f.kind = "reset"

\* the call in progress has IRECOVERY_SEND_OPT_DFU_NOTIFY_FINISH and is not
\* in recovery mode
NotifiesFinish ==
    HasOption(xfer.options, IRECOVERY_SEND_OPT_DFU_NOTIFY_FINISH) /\ ~xfer.recovery_mode

C35_SmallPktNoEffect ==
    (UploadReturned /\ xfer.calls = 2) => Observed(xfer, ret) = xfer.first[1]

\* the second of two successful two-packet DFU uploads with the finish
\* notification has returned, with DFU_SMALL_PKT set
C35_Witness ==
    /\ UploadSucceeded /\ xfer.calls = 2 /\ ~xfer.recovery_mode
    /\ HasOption(xfer.options, IRECOVERY_SEND_OPT_DFU_SMALL_PKT)
    /\ HasOption(xfer.options, IRECOVERY_SEND_OPT_DFU_NOTIFY_FINISH)
    /\ xfer.packets = 2 /\ Len(xfer.progress) = 2
    /\ xfer.first[1].ret = IRECOVERY_E_SUCCESS
    /\ Len(xfer.first[1].frames) = Len(xfer.frames)

\* C36: every USB transfer of irecovery_send_buffer (control transfer, bulk
\* transfer or reset) is issued while the client is finalized: none goes to
\* a device whose finalization is pending (0) or blocked (-1)
C36_OnlyFinalized ==
    [][Len(xfer'.frames) > Len(xfer.frames) => client.finalized = 1]_vars

\* the bytes a download control transfer carries: size bytes of the buffer
\* from offset, then the trailer that goes with them
DownloadData(f) == [k \in 1..f.size |-> Buffer(f.offset + k - 1)] \o f.trailer

\* the data of the transfers k .. Len(D) of D, in transmission order
RECURSIVE Transmitted(_, _)
Transmitted(D, k) ==
    IF k > Len(D) THEN << >> ELSE DownloadData(D[k]) \o Transmitted(D, k + 1)

\* a download control transfer that carries bytes of the buffer
CarriesBufferBytes(f) == IsDataDownload(f) /\ f.size > 0

\* the trailers of the payloads uploaded to a device in DFU mode: the magic
\* bytes and the CRC-32 (poly 0xEDB88320) of the payload and the magic bytes
PayloadTrailers ==
    [L \in UploadLengths(FinalizedClient(IRECOVERY_CLIENT_DEVICE_POLICY_ACCEPT_ALL, 1))
       |-> ExpectedTrailer(ReversedTable_EDB88320, L)]

\* C37: in a successful DFU/WTF upload of length L > 0, the data of the
\* data-carrying download transfers, concatenated in transmission order, is
\* the buffer (every byte once, in order, in chunks of 0x800 bytes except
\* possibly the last) followed by the 12 magic bytes and the 4 CRC bytes:
\* L + 16 bytes
C37_TransmittedStream ==
    (UploadSucceeded /\ ~xfer.recovery_mode /\ xfer.length > 0) =>
        LET D      == SelectSeq(xfer.frames, IsDataDownload)
            P      == SelectSeq(xfer.frames, CarriesBufferBytes)
            stream == Transmitted(D, 1)
        IN  /\ Len(stream) = xfer.length + 16
            /\ stream = [k \in 1..xfer.length |-> Buffer(k - 1)]
                          \o PayloadTrailers[xfer.length]
            /\ \A k \in 1..Len(P) :
                   /\ P[k].offset = (k - 1) * 2048
                   /\ IF k < Len(P) THEN P[k].size = 2048
                      ELSE P[k].size <= 2048 /\ P[k].offset + P[k].size = xfer.length

\* a DFU upload of 0x801 bytes has succeeded with a chunk of 0x800 bytes
\* and a chunk of one byte and the trailer
C37_Witness ==
    /\ UploadSucceeded /\ ~xfer.recovery_mode /\ xfer.length = 2049
    /\ Len(SelectSeq(xfer.frames, IsDataDownload)) = 2
    /\ Len(Transmitted(SelectSeq(xfer.frames, IsDataDownload), 1)) = 2065

\* C38: the progress callback is invoked at most once per completed packet,
\* the cumulative counts it is given are strictly increasing and never
\* exceed the payload length (the percentage never exceeds 100), and the
\* last count of a successful upload is the payload length
C38_ProgressCounts ==
    LET P == xfer.progress
    IN  /\ Len(P) <= xfer.i
        /\ \A k \in 1..(Len(P) - 1) : P[k] < P[k + 1]
        /\ \A k \in 1..Len(P) : P[k] <= xfer.length
        /\ (UploadSucceeded /\ Len(P) > 0) => P[Len(P)] = xfer.length

\* C39: the USB transfers of one call of irecovery_send_buffer all go to
\* one device handle, the one adopted when the call started: once events
\* handled during the upload have adopted a different device, the call
\* sends it no packet, trailer or ZLP
C39_OneDevicePerUpload ==
    \A j, k \in 1..Len(xfer.frames) :
        (xfer.frames[j].handle # NULL /\ xfer.frames[k].handle # NULL)
            => xfer.frames[j].handle = xfer.frames[k].handle

\* C40: every call of the USB adapter that takes a device handle (control
\* transfer, bulk transfer, device reset) is made with the client's
\* non-null handle: none is made after an event handled earlier in the
\* operation has cleared the device zone
C40_HandleNeverNull ==
    \A k \in 1..Len(xfer.frames) : xfer.frames[k].handle # NULL
====
